---- MODULE Spec2Model ----
(***************************************************************************)
(* module-jack: the per-application JACK bridge of PulseAudio.             *)
(*                                                                         *)
(* The model follows src/src/modules/jack/module-jack.c.  Three kinds of   *)
(* threads act on the state: the PulseAudio main thread (module init and   *)
(* done, the stream hooks, the two timers), the JACK threads (the shutdown *)
(* callback) and one worker thread per card.  The main thread runs one     *)
(* handler at a time; `main` holds its position inside the handler, so     *)
(* that callbacks of the JACK threads interleave with it where the code    *)
(* calls out to a library.                                                 *)
(*                                                                         *)
(* Time is kept relative to pa_rtclock_now(): a timer holds the number of  *)
(* seconds left until it expires (PA_USEC_PER_SEC is the unit), and Tick   *)
(* lets one second pass.                                                   *)
(*                                                                         *)
(* Spec is the life of the module: load, streams, outages, unload.  SpecIO *)
(* and SpecMem follow the data path of the card "PulseAudio" of a loaded   *)
(* module (jack_process, the worker's message handlers, the latency        *)
(* requests), SpecIO through an outage and SpecMem through the unload.     *)
(* SpecPorts follows the port loop of one add_bridge call.                 *)
(***************************************************************************)
EXTENDS Integers, Sequences, FiniteSets, TLC

VARIABLES
    alive,          \* FALSE once the process has called abort() or has faulted
    coreState,      \* pa_core.state
    hostDefSink,    \* the name registry's default sink
    hostDefSource,  \* the name registry's default source
    stream,         \* the host's sink-inputs and source-outputs
    modState,       \* "unloaded", "init", "loaded", "failed", "done"
    base,           \* struct sBase
    cards,          \* base->cards, in insertion order
    card,           \* struct sCard, by card id
    serverUp,       \* whether a JACK server is running
    client,         \* the JACK library's clients, by handle
    main,           \* the main thread: its handler, position and locals
    budget,         \* how many streams, outages and library failures are left
    io,             \* the data path of one card: its JACK process thread, its
                    \* jack_msgq, its worker's message handlers, the clocks
    ab,             \* the port loop of one add_bridge call with autoconnect
    wk              \* the worker threads: where each is in thread_func, and
                    \* the UNLOAD_MODULE messages posted to the host

vars == <<alive, coreState, hostDefSink, hostDefSource, stream, modState,
          base, cards, card, serverUp, client, main, budget, io, ab, wk>>

----------------------------------------------------------------------------
(* Bounds of the model *)

NStreams == 2       \* streams the host has at one time
MaxPuts == 2        \* streams the applications open in one run
MaxOutages == 1     \* times the JACK server goes away in one run
MaxFaults == 1      \* library calls that fail without ending the process
MaxCycles == 2      \* process cycles of the JACK graph in one run of the data path
MaxTime == 2        \* seconds pa_rtclock_now() advances in one run of the data path
MaxFrames == 2      \* frames jack_frame_time() advances in one run of the data path
MaxChannels == 3    \* channels of the bridge whose port loop is followed

(* A run has MaxPuts streams and no outage, or an outage and one stream less. *)
Budgets == {
    [puts |-> MaxPuts, outages |-> 0, faults |-> MaxFaults],
    [puts |-> MaxPuts - 1, outages |-> MaxOutages, faults |-> MaxFaults] }

(* Program constants *)

NoClient == 0           \* a NULL jack_client_t*
PA_USEC_INVALID == -1   \* a timer that is not armed
RecoverDelay == 1       \* jack_shutdown: now + PA_USEC_PER_SEC
RetryDelay == 5         \* recover_cb: now + 5 * PA_USEC_PER_SEC
DefaultChannels == 2    \* core->default_sample_spec.channels
NFrames == 2            \* nframes, the period of the JACK graph

StreamIds == 1..NStreams
CardIds == 1..(NStreams + 1)
ClientIds == 1..(2 * (NStreams + 1))

PortIdx == 0..1             \* the used part of sink_port[], source_port[]
MergeArgs == {0, 1, 2}      \* merge=
DelayArgs == {0, 2}         \* delay=, in seconds

NullStr == "<NULL>"         \* a NULL char*
NoPort == <<>>              \* a NULL jack_port_t*
NoDev == <<>>               \* a NULL pa_sink* / pa_source*
PriorDev == <<"hw">>        \* the sink (source) that was default before the load
CardDev(c) == <<"jack", c>> \* the sink (source) of card c

(* The property lists of the applications that open streams. *)
Apps == <<
    [pid |-> "42", binary |-> "foo", name |-> "foo"],
    [pid |-> "43", binary |-> "foo", name |-> "bar"],
    [pid |-> NullStr, binary |-> "baz", name |-> "baz"],
    [pid |-> NullStr, binary |-> "qux", name |-> "qux"] >>

NoStream == [st |-> "none", sink |-> TRUE, app |-> 1, ch |-> 1,
             dont_move |-> FALSE, dev |-> NoDev]

NoPorts == [i \in PortIdx |-> NoPort]

(* A card slot that holds no card. *)
FreeCard == [name |-> NullStr, merge_ref |-> NullStr,
             sink |-> "none", source |-> "none",
             inputs |-> {}, outputs |-> {},
             time_event |-> PA_USEC_INVALID,
             thread |-> "none", jack |-> NoClient,
             sink_port |-> NoPorts, source_port |-> NoPorts,
             sink_channels |-> 0, source_channels |-> 0,
             freed |-> {}]

FreeClient == [st |-> "free", card |-> 0, cbs |-> {}, active |-> FALSE,
               ports |-> {}, pending |-> FALSE]

Callbacks == {"process", "shutdown", "thread_init", "buffer_size"}

NoBase == [autoconnect |-> FALSE, stoped |-> FALSE, unloading |-> FALSE,
           recover_event |-> PA_USEC_INVALID, merge |-> 0, delay |-> 0,
           default_sink |-> NoDev, default_source |-> NoDev, hooks |-> FALSE]

Idle == [pc |-> "idle", card |-> 0, s |-> 0, sink |-> TRUE, channels |-> 0,
         ret |-> "idle", prep |-> FALSE, todo |-> <<>>, idx |-> 0,
         prepare |-> FALSE]

(* The data path while no card is followed.  The fields from sink_timestamp to
   saved_frame_time_valid are those of struct sCard; jack_msgq is the card's
   queue, jp and frame_time the position and the local of jack_process; now
   and ft are the two clocks, sinkState and sourceState the thread_info.state
   of the sink and the source.  refs counts the references the bridge holds on
   the capture memblock of each cycle, render_refs those on the memblock of
   the last RENDER; posted lists the cycles whose chunk went to
   pa_source_post; lat is the last latency report. *)
NoLat == [dir |-> "none", stoped |-> FALSE, value |-> 0, graph |-> FALSE,
          r |-> 0]

NoBuffers == [c \in PortIdx |-> "stale"]

NoIo == [card |-> 0, now |-> 0, ft |-> 0, cycle |-> 0,
         jp |-> "idle", frame_time |-> 0, jack_msgq |-> <<>>,
         sinkState |-> "RUNNING", sourceState |-> "RUNNING",
         sink_timestamp |-> 0, source_timestamp |-> 0,
         frames_in_buffer |-> 0, saved_frame_time |-> 0,
         saved_frame_time_valid |-> FALSE, rewind_requested |-> FALSE,
         sink_buffer |-> NoBuffers,
         refs |-> [n \in 1..MaxCycles |-> 0], render_refs |-> 0,
         posted |-> <<>>, lat |-> NoLat]

(* The workers while every one of them is in its poll loop. *)
NoWk == [pc |-> [c \in CardIds |-> "poll"], posted |-> 0]

(* The locals of add_bridge's port loop while no loop is followed. *)
NoAb == [pc |-> "none", sink |-> TRUE, channels |-> 0, phys |-> 0, refuse |-> 0,
         regfail |-> 0, i |-> 0, autoconnect |-> FALSE, registered |-> <<>>, connected |-> {},
         logged |-> 0]

----------------------------------------------------------------------------
(* Helpers *)

SeqToSet(q) == {q[i] : i \in DOMAIN q}

RECURSIVE SetToSeq(_)
SetToSeq(S) ==
    IF S = {} THEN <<>>
    ELSE LET x == CHOOSE y \in S : \A z \in S : y <= z
         IN <<x>> \o SetToSeq(S \ {x})

RemoveFromSeq(q, x) == SelectSeq(q, LAMBDA y : y # x)

pa_strnull(x) == IF x = NullStr THEN "(null)" ELSE x

get_merge_ref(p, merge) ==
    CASE merge = 1 -> pa_strnull(p.pid)
      [] merge = 2 -> pa_strnull(p.binary)
      [] merge = 3 -> pa_strnull(p.name)
      [] OTHER -> NullStr

HasBridge(cr, isSink) == IF isSink THEN cr.sink # "none" ELSE cr.source # "none"

(* A card whose sink has no stream the unload would move. *)
NoSinkInputs(c) == {}

(* The streams the host has attached to the sink (source) of card c. *)
SinkInputsOf(c) == {s \in StreamIds : stream[s].st = "live" /\ stream[s].sink
                                       /\ stream[s].dev = CardDev(c)}
SourceOutputsOf(c) == {s \in StreamIds : stream[s].st = "live" /\ ~stream[s].sink
                                          /\ stream[s].dev = CardDev(c)}

Min(S) == CHOOSE x \in S : \A y \in S : x <= y

(* The environment's budget: p streams, o outages and f failures are used up. *)
Spend(p, o, f) ==
    budget' = [puts |-> budget.puts - p, outages |-> budget.outages - o,
               faults |-> budget.faults - f]

FaultsLeft == budget.faults

----------------------------------------------------------------------------
(* The JACK library *)

FreshClients(cl) == {k \in ClientIds : cl[k].st = "free"}

(* An open that lets the library start a server. *)
JackNullOption(force) == FALSE

(* create_jack passes JackNoStartServer unless force is set. *)
JackNoStartServer(force) == ~force

(* jack_client_open: the results it can have.  Without JackNoStartServer the
   library starts a server when none is running. *)
jack_client_open(cl, up, noStart) ==
    LET can == FreshClients(cl) # {} /\ (up \/ ~noStart)
    IN {[ok |-> FALSE, k |-> NoClient, up |-> up, f |-> IF can THEN 1 ELSE 0]}
       \cup
       IF can
       THEN {[ok |-> TRUE, k |-> Min(FreshClients(cl)), up |-> TRUE, f |-> 0]}
       ELSE {}

(* Port names that are numbered for every channel count. *)
PortNameNumbered(isSink, i, channels) ==
    (IF isSink THEN "out_" ELSE "in_") \o ToString(i + 1)

(* The name add_bridge gives port i of a bridge with `channels` channels. *)
PortName(isSink, i, channels) ==
    CASE i = 0 -> IF channels = 1
                  THEN (IF isSink THEN "out" ELSE "in")
                  ELSE (IF isSink THEN "left" ELSE "left_in")
      [] i = 1 -> IF isSink THEN "right" ELSE "right_in"
      [] OTHER -> (IF isSink THEN "out_" ELSE "in_") \o ToString(i + 1)

(* How many ports of a bridge jack_port_register can register: all of them,
   or all but the last, for which it fails. *)
FailPoints(channels) == {n \in {channels - 1, channels} : n >= 0}

(* The port loop of add_bridge on the client cr.jack: jack_port_register
   succeeds for the ports 0..n-1 and, when n < channels, fails for port n. *)
RegisterPorts(cr, cl, isSink, channels, n) ==
    LET k == cr.jack
        reg == [i \in PortIdx |-> <<k, PortName(isSink, i, channels)>>]
        arr == IF isSink THEN cr.sink_port ELSE cr.source_port
        new == [i \in PortIdx |-> IF i < n THEN reg[i] ELSE arr[i]]
    IN [cr |-> IF isSink THEN [cr EXCEPT !.sink_port = new]
                         ELSE [cr EXCEPT !.source_port = new],
        cl |-> [cl EXCEPT ![k].ports =
                   @ \cup {PortName(isSink, i, channels) : i \in 0..(n - 1)}],
        f |-> IF n < channels THEN 1 ELSE 0]

(* create_jack(card, force) for the card cr in slot c: the set of its results.
   res is "true", "false" or "abort"; f counts the library calls that failed
   without ending the process. *)
create_jack(cr, c, force, cl, up) ==
    IF cr.jack # NoClient
    THEN {[res |-> "true", cr |-> cr, cl |-> cl, up |-> up, f |-> 0]}
    ELSE UNION { IF ~o.ok
                 THEN {[res |-> IF force THEN "abort" ELSE "false",
                        cr |-> cr, cl |-> cl, up |-> o.up,
                        f |-> IF force THEN 0 ELSE o.f]}
                 ELSE LET cr1 == [cr EXCEPT !.jack = o.k]
                          cl1 == [cl EXCEPT ![o.k] =
                                    [st |-> "open", card |-> c, cbs |-> Callbacks,
                                     active |-> TRUE, ports |-> {}, pending |-> FALSE]]
                          afterSink(n) ==
                              IF cr1.sink # "none"
                              THEN RegisterPorts(cr1, cl1, TRUE, cr1.sink_channels, n)
                              ELSE [cr |-> cr1, cl |-> cl1, f |-> 0]
                          afterSource(x, n) ==
                              IF cr1.source # "none"
                              THEN [RegisterPorts(x.cr, x.cl, FALSE, cr1.source_channels, n)
                                      EXCEPT !.f = @ + x.f]
                              ELSE x
                      IN \* jack_activate fails
                         {[res |-> "abort", cr |-> cr1,
                           cl |-> [cl1 EXCEPT ![o.k].active = FALSE],
                           up |-> o.up, f |-> 0]}
                         \cup
                         { [res |-> "true",
                            cr |-> afterSource(afterSink(ns), nr).cr,
                            cl |-> afterSource(afterSink(ns), nr).cl,
                            up |-> o.up,
                            f |-> afterSource(afterSink(ns), nr).f]
                           : <<ns, nr>> \in
                               (IF cr1.sink # "none" THEN FailPoints(cr1.sink_channels) ELSE {0})
                               \X
                               (IF cr1.source # "none" THEN FailPoints(cr1.source_channels) ELSE {0}) }
               : o \in jack_client_open(cl, up, JackNoStartServer(force)) }

(* create_card(base, name) into the free slot c: the set of its results. *)
create_card(name, c, cl, up) ==
    LET cr0 == [FreeCard EXCEPT !.name = name]
    IN UNION { IF o.res = "true"
               THEN {[o EXCEPT !.cr.thread = "running"],
                     \* pa_thread_new fails
                     [o EXCEPT !.res = "abort"]}
               ELSE {o}
               : o \in create_jack(cr0, c, TRUE, cl, up) }

FreeSlots == {c \in CardIds : \A i \in DOMAIN cards : cards[i] # c}

----------------------------------------------------------------------------
(* The initial state: the host runs, the module is not loaded. *)

Init ==
    /\ alive = TRUE
    /\ coreState \in {"STARTUP", "RUNNING"}
    /\ hostDefSink = PriorDev
    /\ hostDefSource = PriorDev
    /\ stream = [s \in StreamIds |-> NoStream]
    /\ modState = "unloaded"
    /\ base = NoBase
    /\ cards = <<>>
    /\ card = [c \in CardIds |-> FreeCard]
    /\ serverUp \in BOOLEAN
    /\ client = [k \in ClientIds |-> FreeClient]
    /\ main = Idle
    /\ budget \in Budgets
    /\ io = NoIo
    /\ ab = NoAb
    /\ wk = NoWk

----------------------------------------------------------------------------
(* The stream hooks *)

(* Where a hook returns to: the prepare loop of pa__init, or the main loop. *)
HookReturn(m) ==
    IF m.prep THEN [Idle EXCEPT !.pc = "init_prepare", !.prep = TRUE, !.todo = m.todo]
    ELSE Idle

(* A lookup that never finds a card. *)
FindNoCard(ref) == 0

(* The first card of base->cards whose merge_ref equals ref, or 0. *)
FindCard(ref) ==
    LET hit(c) == card[c].merge_ref # NullStr /\ card[c].merge_ref = ref
        hits == SelectSeq(cards, hit)
    IN IF ref = NullStr \/ hits = <<>> THEN 0 ELSE Head(hits)

(* pa_idxset_put of stream s into card->inputs or card->outputs. *)
PutStream(cr, isSink, s) ==
    IF isSink THEN [cr EXCEPT !.inputs = @ \cup {s}]
    ELSE [cr EXCEPT !.outputs = @ \cup {s}]

(* pa_sink_input_move_to, pa_source_output_move_to: whether the move succeeds. *)
MoveResults == IF FaultsLeft > 0 THEN BOOLEAN ELSE {TRUE}

(* A put hook that handles every stream in every state of the host. *)
HookSkipsNone(state, si) == FALSE

(* sink_put_hook_callback lines 792-797, source_put_hook_callback lines
   837-842: the hook returns at once while the host is not RUNNING and for a
   stream that has the DONT_MOVE flag. *)
HookSkips(state, si) == state # "RUNNING" \/ si.dont_move

(* sink_put_hook_callback and source_put_hook_callback, up to the call of
   add_bridge, for stream s of the host's streams S; m is the caller's frame
   and p is 1 when the stream is new. *)
PutHook(s, S, m, p) ==
    LET si == S[s]
        merge_ref == get_merge_ref(Apps[si.app], base.merge)
        ref == FindCard(merge_ref)
        call(c) == [Idle EXCEPT !.pc = "ab_create", !.card = c, !.s = s,
                                !.sink = si.sink, !.channels = si.ch,
                                !.ret = "put_tail", !.prep = m.prep, !.todo = m.todo]
    IN
    /\ UNCHANGED <<coreState, hostDefSink, hostDefSource, modState, base>>
    /\ IF HookSkips(coreState, si)
       THEN /\ stream' = S
            /\ main' = HookReturn(m)
            /\ Spend(p, 0, 0)
            /\ UNCHANGED <<alive, cards, card, serverUp, client>>
       ELSE IF ref # 0 /\ HasBridge(card[ref], si.sink)
       THEN \* an additional stream of a card that has the bridge
            /\ \E moved \in MoveResults :
                  /\ stream' = [S EXCEPT ![s].dev = IF moved THEN CardDev(ref) ELSE @]
                  /\ Spend(p, 0, IF moved THEN 0 ELSE 1)
            /\ card' = [card EXCEPT ![ref] = PutStream(@, si.sink, s)]
            /\ main' = HookReturn(m)
            /\ UNCHANGED <<alive, cards, serverUp, client>>
       ELSE IF ref # 0
       THEN \* the card exists for the other direction
            /\ stream' = S
            /\ main' = call(ref)
            /\ Spend(p, 0, 0)
            /\ UNCHANGED <<alive, cards, card, serverUp, client>>
       ELSE \* create_card
            /\ FreeSlots # {}
            /\ Spend(p, 0, 0)
            /\ LET c == Min(FreeSlots)
               IN \E o \in create_card(Apps[si.app].name, c, client, serverUp) :
                    IF o.res = "abort"
                    THEN /\ alive' = FALSE
                         /\ stream' = S
                         /\ client' = o.cl
                         /\ serverUp' = o.up
                         /\ UNCHANGED <<cards, card, main>>
                    ELSE /\ card' = [card EXCEPT ![c] = o.cr]
                         /\ cards' = Append(cards, c)
                         /\ client' = o.cl
                         /\ serverUp' = o.up
                         /\ stream' = S
                         /\ main' = call(c)
                         /\ UNCHANGED alive

(* add_bridge, lines 501-603: the sink or source is created.  With a NULL
   client handle jack_get_sample_rate and jack_get_client_name fault. *)
AddBridgeCreate ==
    /\ UNCHANGED <<io, ab, wk>>
    /\ alive /\ main.pc = "ab_create"
    /\ LET c == main.card
           cr == card[c]
           channels == IF main.channels = 0 THEN DefaultChannels ELSE main.channels
           cr1 == IF main.sink THEN [cr EXCEPT !.sink_channels = channels]
                               ELSE [cr EXCEPT !.source_channels = channels]
       IN IF HasBridge(cr, main.sink)
          THEN /\ main' = [main EXCEPT !.pc = "ab_jack"]
               /\ UNCHANGED <<alive, card, budget>>
          ELSE IF cr.jack = NoClient
          THEN /\ alive' = FALSE
               /\ UNCHANGED <<card, main, budget>>
          ELSE \/ \* invalid properties, or pa_sink_new / pa_source_new fails
                  /\ FaultsLeft > 0
                  /\ Spend(0, 0, 1)
                  /\ card' = [card EXCEPT ![c] = cr1]
                  /\ main' = [main EXCEPT !.pc = main.ret, !.channels = channels]
                  /\ UNCHANGED alive
               \/ /\ card' = [card EXCEPT ![c] =
                                IF main.sink THEN [cr1 EXCEPT !.sink = "linked"]
                                ELSE [cr1 EXCEPT !.source = "linked"]]
                  /\ main' = [main EXCEPT !.pc = "ab_jack", !.channels = channels]
                  /\ UNCHANGED <<alive, budget>>
    /\ UNCHANGED <<coreState, hostDefSink, hostDefSource, stream, modState,
                   base, cards, serverUp, client>>

(* add_bridge, lines 605-679: the ports are registered on the card's client,
   unless the handle is NULL. *)
AddBridgeJack ==
    /\ UNCHANGED <<io, ab, wk>>
    /\ alive /\ main.pc = "ab_jack"
    /\ LET c == main.card
           cr == card[c]
       IN IF cr.jack = NoClient
          THEN /\ main' = [main EXCEPT !.pc = main.ret]
               /\ UNCHANGED <<card, client, budget>>
          ELSE \E n \in FailPoints(main.channels) :
                 LET r == RegisterPorts(cr, client, main.sink, main.channels, n)
                 IN /\ r.f <= FaultsLeft
                    /\ Spend(0, 0, r.f)
                    /\ card' = [card EXCEPT ![c] = r.cr]
                    /\ client' = r.cl
                    /\ main' = [main EXCEPT !.pc = main.ret]
    /\ UNCHANGED <<alive, coreState, hostDefSink, hostDefSource, stream, modState,
                   base, cards, serverUp>>

(* The put hooks after add_bridge, lines 822-830 and 867-875. *)
PutTail ==
    /\ UNCHANGED <<io, ab, wk>>
    /\ alive /\ main.pc = "put_tail"
    /\ LET c == main.card
           cr == card[c]
           s == main.s
           merge_ref == get_merge_ref(Apps[stream[s].app], base.merge)
       IN IF \/ ~HasBridge(cr, main.sink)     \* card->sink->proplist
             \/ cr.jack = NoClient            \* jack_get_client_name(NULL)
             \/ merge_ref = NullStr           \* strlen(NULL)
          THEN /\ alive' = FALSE
               /\ UNCHANGED <<card, stream, main, budget>>
          ELSE /\ card' = [card EXCEPT ![c] =
                             [PutStream(cr, main.sink, s) EXCEPT !.merge_ref = merge_ref]]
               /\ \E moved \in MoveResults :
                     /\ stream' = [stream EXCEPT ![s].dev =
                                     IF moved THEN CardDev(c) ELSE @]
                     /\ Spend(0, 0, IF moved THEN 0 ELSE 1)
               /\ main' = HookReturn(main)
               /\ UNCHANGED alive
    /\ UNCHANGED <<coreState, hostDefSink, hostDefSource, modState,
                   base, cards, serverUp, client>>

(* The kinds of streams the applications open. *)
StreamKinds == {
    [sink |-> TRUE,  app |-> 1, ch |-> 2, dont_move |-> FALSE],
    [sink |-> TRUE,  app |-> 2, ch |-> 1, dont_move |-> FALSE],
    [sink |-> FALSE, app |-> 1, ch |-> 1, dont_move |-> FALSE],
    [sink |-> FALSE, app |-> 2, ch |-> 2, dont_move |-> FALSE],
    [sink |-> TRUE,  app |-> 1, ch |-> 2, dont_move |-> TRUE],
    [sink |-> FALSE, app |-> 1, ch |-> 1, dont_move |-> TRUE] }

FreeStreams == {s \in StreamIds : stream[s].st = "none"}

(* The host puts a new sink-input or source-output on its default device and
   fires PA_CORE_HOOK_SINK_INPUT_PUT or PA_CORE_HOOK_SOURCE_OUTPUT_PUT. *)
StreamPutOf(kinds) ==
    /\ UNCHANGED <<io, ab, wk>>
    /\ alive /\ main.pc = "idle" /\ modState \in {"unloaded", "loaded"}
    /\ FreeStreams # {}
    /\ budget.puts > 0
    /\ \E k \in kinds :
         LET s == Min(FreeStreams)
             def == IF k.sink THEN hostDefSink ELSE hostDefSource
             S == [stream EXCEPT ![s] =
                     [st |-> "live", sink |-> k.sink, app |-> k.app, ch |-> k.ch,
                      dont_move |-> k.dont_move,
                      dev |-> IF def = NoDev THEN PriorDev ELSE def]]
         IN IF base.hooks
            THEN PutHook(s, S, Idle, 1)
            ELSE /\ stream' = S
                 /\ Spend(1, 0, 0)
                 /\ UNCHANGED <<alive, coreState, hostDefSink, hostDefSource, modState,
                                base, cards, card, serverUp, client, main>>

StreamPut == StreamPutOf(StreamKinds)

(* unload_card(card, false) that arms the timer for now. *)
unload_card_now(cr) == [cr EXCEPT !.time_event = 0]

(* unload_card(card, false), lines 687-693: the teardown timer is armed. *)
unload_card_unforced(cr) ==
    IF base.delay > 0 THEN [cr EXCEPT !.time_event = base.delay] ELSE cr

(* The host unlinks stream s and fires the UNLINK hook: sink_unlink_hook_callback
   or source_unlink_hook_callback. *)
StreamUnlink(s) ==
    /\ UNCHANGED <<io, ab, wk>>
    /\ alive /\ main.pc = "idle" /\ modState \in {"unloaded", "loaded"}
    /\ stream[s].st = "live"
    /\ LET isSink == stream[s].sink
           has(c) == IF isSink THEN s \in card[c].inputs ELSE s \in card[c].outputs
           hits == SelectSeq(cards, has)
       IN IF base.hooks /\ hits # <<>>
          THEN LET c == Head(hits)
                   cr == IF isSink THEN [card[c] EXCEPT !.inputs = @ \ {s}]
                                   ELSE [card[c] EXCEPT !.outputs = @ \ {s}]
               IN card' = [card EXCEPT ![c] = unload_card_unforced(cr)]
          ELSE UNCHANGED card
    /\ stream' = [stream EXCEPT ![s] = NoStream]
    /\ UNCHANGED <<alive, coreState, hostDefSink, hostDefSource, modState,
                   base, cards, serverUp, client, main, budget>>

(* timeout_cb that does not look at the streams. *)
NoStreamsAttached(c) == FALSE

(* timeout_cb, lines 932-939: whether the host has a stream on the sink or on
   the source of card c. *)
StreamsAttached(c) ==
    \/ (card[c].sink # "none" /\ SinkInputsOf(c) # {})
    \/ (card[c].source # "none" /\ SourceOutputsOf(c) # {})

(* timeout_cb: the teardown timer of card c expires. *)
TimeoutCb(c) ==
    /\ UNCHANGED <<io, ab, wk>>
    /\ alive /\ main.pc = "idle" /\ modState = "loaded"
    /\ c \in SeqToSet(cards)
    /\ card[c].time_event = 0
    /\ card' = [card EXCEPT ![c].time_event = PA_USEC_INVALID]
    /\ IF StreamsAttached(c)
       THEN main' = Idle
       ELSE main' = [Idle EXCEPT !.pc = "ul_move", !.card = c, !.ret = "idle"]
    /\ UNCHANGED <<alive, coreState, hostDefSink, hostDefSource, stream, modState,
                   base, cards, serverUp, client, budget>>

(* unload_card(card, true) that releases the card before it joins the worker. *)
UnloadFreeFirst(pc) ==
    CASE pc = "ul_move" -> "ul_timefree"
      [] pc = "ul_timefree" -> "ul_close"
      [] pc = "ul_close" -> "ul_free"
      [] pc = "ul_join" -> "ul_free"

(* unload_card(card, true): the step that follows step pc. *)
UnloadNext(pc) ==
    CASE pc = "ul_move" -> "ul_timefree"
      [] pc = "ul_timefree" -> "ul_close"
      [] pc = "ul_close" -> "ul_join"
      [] pc = "ul_join" -> "ul_free"

(* unload_card(card, true), lines 695-718: the streams still on the sink and
   the source are moved to the host's defaults; a stream that cannot be moved
   is killed when its device is unlinked. *)
UnloadMove ==
    /\ UNCHANGED <<io, ab, wk>>
    /\ alive /\ main.pc = "ul_move"
    /\ LET c == main.card
           on == SinkInputsOf(c) \cup SourceOutputsOf(c)
           def(s) == IF stream[s].sink THEN hostDefSink ELSE hostDefSource
       IN /\ \E moved \in MoveResults :
                /\ stream' = [s \in StreamIds |->
                                IF s \notin on THEN stream[s]
                                ELSE IF moved /\ def(s) # NoDev /\ def(s) # CardDev(c)
                                THEN [stream[s] EXCEPT !.dev = def(s)]
                                ELSE NoStream]
                /\ (~moved => on # {})
                /\ Spend(0, 0, IF moved THEN 0 ELSE 1)
          /\ card' = [card EXCEPT ![c].sink = IF @ = "none" THEN @ ELSE "unlinked",
                                  ![c].source = IF @ = "none" THEN @ ELSE "unlinked"]
    /\ main' = [main EXCEPT !.pc = UnloadNext("ul_move")]
    /\ UNCHANGED <<alive, coreState, hostDefSink, hostDefSource, modState,
                   base, cards, serverUp, client>>

(* line 719: the teardown timer is freed. *)
UnloadTimeFree ==
    /\ UNCHANGED <<io, ab, wk>>
    /\ alive /\ main.pc = "ul_timefree"
    /\ card' = [card EXCEPT ![main.card].time_event = PA_USEC_INVALID,
                            ![main.card].freed = @ \cup {"time_event"}]
    /\ main' = [main EXCEPT !.pc = UnloadNext("ul_timefree")]
    /\ UNCHANGED <<alive, coreState, hostDefSink, hostDefSource, stream, modState,
                   base, cards, serverUp, client, budget>>

(* line 721: jack_client_close(card->jack), which returns after the process
   callback that is running has returned.  With a NULL handle the library
   either faults or returns an error. *)
UnloadClose ==
    /\ UNCHANGED <<io, ab, wk>>
    /\ alive /\ main.pc = "ul_close"
    /\ (io.card = main.card /\ card[main.card].jack # NoClient) => io.jp = "idle"
    /\ LET c == main.card
           k == card[c].jack
       IN IF k = NoClient
          THEN \/ /\ alive' = FALSE
                  /\ UNCHANGED <<card, client, main>>
               \/ /\ main' = [main EXCEPT !.pc = UnloadNext("ul_close")]
                  /\ UNCHANGED <<alive, card, client>>
          ELSE /\ client' = [client EXCEPT ![k] = FreeClient]
               /\ card' = [card EXCEPT ![c].freed = @ \cup {"jack"}]
               /\ main' = [main EXCEPT !.pc = UnloadNext("ul_close")]
               /\ UNCHANGED alive
    /\ UNCHANGED <<coreState, hostDefSink, hostDefSource, stream, modState,
                   base, cards, serverUp, budget>>

(* lines 722-723: SHUTDOWN is sent to the worker, which takes it in its poll
   loop or in the wait of its fail path (line 365), and the worker is
   joined. *)
UnloadJoin ==
    /\ UNCHANGED <<io, ab>>
    /\ alive /\ main.pc = "ul_join"
    /\ wk.pc[main.card] \in {"poll", "wait"}
    /\ wk' = [wk EXCEPT !.pc[main.card] = "exited"]
    /\ card' = [card EXCEPT ![main.card].thread = "joined"]
    /\ main' = [main EXCEPT !.pc = UnloadNext("ul_join")]
    /\ UNCHANGED <<alive, coreState, hostDefSink, hostDefSource, stream, modState,
                   base, cards, serverUp, client, budget>>

(* pa_asyncmsgq_unref(card->jack_msgq), line 733: the last reference frees the
   queue, which drops the reference it holds on the chunk of every message
   that was not dispatched.  The card's data path is gone with the card. *)
QueueFree(i) ==
    [i EXCEPT !.card = 0,
              !.jack_msgq = <<>>,
              !.refs = [n \in DOMAIN @ |->
                          @[n] - Cardinality({j \in DOMAIN i.jack_msgq :
                                                /\ i.jack_msgq[j].code = "POST"
                                                /\ i.jack_msgq[j].chunk = n})]]

(* lines 724-745: the queues, the sink, the source, the poll set and the stream
   sets are released, the card leaves base->cards and is freed. *)
UnloadFree ==
    /\ UNCHANGED ab
    /\ wk' = [wk EXCEPT !.pc[main.card] = "poll"]
    /\ io' = IF io.card = main.card THEN QueueFree(io) ELSE io
    /\ alive /\ main.pc = "ul_free"
    /\ LET c == main.card
       IN /\ card' = [card EXCEPT ![c] = FreeCard]
          /\ cards' = RemoveFromSeq(cards, c)
    /\ main' = [Idle EXCEPT !.pc = main.ret]
    /\ UNCHANGED <<alive, coreState, hostDefSink, hostDefSource, stream, modState,
                   base, serverUp, client, budget>>

----------------------------------------------------------------------------
(* Module init and done *)

(* pa__done, lines 1060-1077: the recover timer and the hook slots are freed
   and the saved defaults are handed back to the name registry. *)
DoneHead(b) == [b EXCEPT !.recover_event = PA_USEC_INVALID, !.hooks = FALSE]

(* pa__init, lines 950-1008: the arguments are parsed, the hooks connected and
   the card "PulseAudio" created. *)
PaInit ==
    /\ UNCHANGED <<io, ab, wk>>
    /\ alive /\ main.pc = "idle" /\ modState = "unloaded"
    /\ \/ \* an argument does not parse: pa__done, return -1
          /\ modState' = "failed"
          /\ base' = DoneHead(NoBase)
          /\ hostDefSink' = NoBase.default_sink
          /\ hostDefSource' = NoBase.default_source
          /\ UNCHANGED <<alive, coreState, stream, cards, card, serverUp, client,
                         main, budget>>
       \/ \E merge \in MergeArgs, delay \in DelayArgs, prepare \in BOOLEAN :
            /\ base' = [NoBase EXCEPT !.autoconnect = TRUE, !.merge = merge,
                                      !.delay = delay, !.hooks = TRUE]
            /\ LET c == Min(FreeSlots)
               IN \E o \in create_card("PulseAudio", c, client, serverUp) :
                    IF o.res = "abort"
                    THEN /\ alive' = FALSE
                         /\ client' = o.cl
                         /\ serverUp' = o.up
                         /\ UNCHANGED <<cards, card, main>>
                    ELSE /\ card' = [card EXCEPT ![c] = o.cr]
                         /\ cards' = Append(cards, c)
                         /\ client' = o.cl
                         /\ serverUp' = o.up
                         /\ main' = [Idle EXCEPT !.pc = "ab_create", !.card = c,
                                                 !.sink = TRUE, !.channels = 0,
                                                 !.ret = "init_source",
                                                 !.prepare = prepare]
                         /\ UNCHANGED alive
            /\ modState' = "init"
            /\ UNCHANGED <<coreState, hostDefSink, hostDefSource, stream, budget>>

(* line 1010: add_bridge(card, is_source, 0) *)
InitSource ==
    /\ UNCHANGED <<io, ab, wk>>
    /\ alive /\ main.pc = "init_source"
    /\ main' = [main EXCEPT !.pc = "ab_create", !.sink = FALSE, !.channels = 0,
                            !.ret = "init_defaults"]
    /\ UNCHANGED <<alive, coreState, hostDefSink, hostDefSource, stream, modState,
                   base, cards, card, serverUp, client, budget>>

(* The sink-inputs, then the source-outputs, of the host. *)
ExistingStreams ==
    SetToSeq({s \in StreamIds : stream[s].st = "live" /\ stream[s].sink})
    \o SetToSeq({s \in StreamIds : stream[s].st = "live" /\ ~stream[s].sink})

(* lines 1012-1019: the defaults are saved and replaced by the card's sink and
   source. *)
InitDefaults ==
    /\ UNCHANGED <<io, ab, wk>>
    /\ alive /\ main.pc = "init_defaults"
    /\ LET c == main.card
       IN /\ base' = [base EXCEPT !.default_sink = hostDefSink,
                                  !.default_source = hostDefSource]
          /\ hostDefSink' = IF card[c].sink = "none" THEN NoDev ELSE CardDev(c)
          /\ hostDefSource' = IF card[c].source = "none" THEN NoDev ELSE CardDev(c)
    /\ main' = [Idle EXCEPT !.pc = "init_prepare", !.prep = TRUE,
                            !.todo = IF main.prepare THEN ExistingStreams ELSE <<>>]
    /\ UNCHANGED <<alive, coreState, stream, modState, cards, card, serverUp, client,
                   budget>>

(* lines 1019-1031: the put hooks are run for the streams that exist. *)
InitPrepare ==
    /\ UNCHANGED <<io, ab, wk>>
    /\ alive /\ main.pc = "init_prepare"
    /\ IF main.todo = <<>>
       THEN /\ modState' = "loaded"
            /\ main' = Idle
            /\ UNCHANGED <<alive, coreState, hostDefSink, hostDefSource, stream,
                           base, cards, card, serverUp, client, budget>>
       ELSE PutHook(Head(main.todo), stream, [main EXCEPT !.todo = Tail(@)], 0)

(* pa__done, lines 1050-1077 *)
PaDone ==
    /\ UNCHANGED <<io, ab, wk>>
    /\ alive /\ main.pc = "idle" /\ modState = "loaded"
    /\ modState' = "unloading"
    /\ base' = DoneHead(base)
    /\ hostDefSink' = base.default_sink
    /\ hostDefSource' = base.default_source
    /\ main' = [Idle EXCEPT !.pc = "done_loop"]
    /\ UNCHANGED <<alive, coreState, stream, cards, card, serverUp, client, budget>>

(* pa__done, lines 1079-1088: every card is unloaded, then base is freed. *)
DoneLoop ==
    /\ UNCHANGED <<io, ab, wk>>
    /\ alive /\ main.pc = "done_loop"
    /\ IF cards = <<>>
       THEN /\ modState' = "done"
            /\ base' = NoBase
            /\ main' = Idle
       ELSE /\ main' = [Idle EXCEPT !.pc = "ul_move", !.card = Head(cards),
                                    !.ret = "done_loop"]
            /\ UNCHANGED <<modState, base>>
    /\ UNCHANGED <<alive, coreState, hostDefSink, hostDefSource, stream,
                   cards, card, serverUp, client, budget>>

(* The host finishes its startup. *)
CoreRun ==
    /\ UNCHANGED <<io, ab, wk>>
    /\ alive /\ main.pc = "idle" /\ coreState = "STARTUP"
    /\ coreState' = "RUNNING"
    /\ UNCHANGED <<alive, hostDefSink, hostDefSource, stream, modState,
                   base, cards, card, serverUp, client, main, budget>>

----------------------------------------------------------------------------
(* The JACK server and the JACK threads *)

(* The server goes away: every client of it is to be told by its shutdown
   callback. *)
ServerDies ==
    /\ UNCHANGED <<io, ab, wk>>
    /\ alive /\ serverUp
    /\ budget.outages > 0
    /\ Spend(0, 1, 0)
    /\ serverUp' = FALSE
    /\ client' = [k \in ClientIds |->
                    IF client[k].st = "open"
                    THEN [client[k] EXCEPT !.st = "zombie", !.active = FALSE,
                                           !.pending = ("shutdown" \in client[k].cbs)]
                    ELSE client[k]]
    /\ UNCHANGED <<alive, coreState, hostDefSink, hostDefSource, stream, modState,
                   base, cards, card, main>>

(* Somebody starts a server.  The module sees the server only when it opens a
   client, so the start is taken where the main thread's next step may open
   one. *)
ServerStarts ==
    /\ UNCHANGED <<io, ab, wk>>
    /\ alive /\ ~serverUp
    /\ main.pc \in {"idle", "init_prepare", "rec_loop"}
    /\ serverUp' = TRUE
    /\ UNCHANGED <<alive, coreState, hostDefSink, hostDefSource, stream, modState,
                   base, cards, card, client, main, budget>>

(* jack_shutdown that clears the handle of one card only. *)
ShutdownOneCard(cs) ==
    [c \in CardIds |-> IF cs # {} /\ c = Min(cs)
                       THEN [card[c] EXCEPT !.jack = NoClient]
                       ELSE card[c]]

(* jack_shutdown, lines 399-401: the handle of every card of base->cards is
   set to NULL. *)
ShutdownCards(cs) ==
    [c \in CardIds |-> IF c \in cs THEN [card[c] EXCEPT !.jack = NoClient]
                       ELSE card[c]]

(* jack_shutdown, on a JACK thread, for client k.  The callback's card, or
   base and its timer, may have been freed by then: the callback then either
   faults or writes through the stale pointers.  Nothing refers to the dead
   client afterwards, and its handle can be handed out again. *)
JackShutdown(k) ==
    /\ UNCHANGED <<io, ab, wk>>
    /\ alive /\ client[k].pending
    /\ client' = [client EXCEPT ![k] = FreeClient]
    /\ LET stale == \/ modState \in {"unloading", "done", "failed"}
                    \/ client[k].card \notin SeqToSet(cards)
           written == /\ card' = ShutdownCards(SeqToSet(cards))
                      /\ base' = IF modState \in {"done", "failed"} THEN base
                                 ELSE IF modState = "unloading"
                                 THEN [base EXCEPT !.stoped = TRUE]
                                 ELSE [base EXCEPT !.stoped = TRUE,
                                                   !.recover_event = RecoverDelay]
                      /\ UNCHANGED alive
       IN IF stale
          THEN \/ /\ alive' = FALSE
                  /\ UNCHANGED <<card, base>>
               \/ written
          ELSE written
    /\ UNCHANGED <<coreState, hostDefSink, hostDefSource, stream, modState,
                   cards, serverUp, main, budget>>

(* recover_cb, lines 911-913: the recover timer expires. *)
RecoverCb ==
    /\ UNCHANGED <<io, ab, wk>>
    /\ alive /\ main.pc = "idle" /\ modState = "loaded"
    /\ base.recover_event = 0
    /\ IF base.stoped /\ cards = <<>>
       THEN base' = [base EXCEPT !.recover_event = PA_USEC_INVALID, !.stoped = FALSE]
       ELSE base' = [base EXCEPT !.recover_event = PA_USEC_INVALID]
    /\ main' = IF base.stoped /\ cards # <<>>
               THEN [Idle EXCEPT !.pc = "rec_loop", !.idx = 1]
               ELSE Idle
    /\ UNCHANGED <<alive, coreState, hostDefSink, hostDefSource, stream, modState,
                   cards, card, serverUp, client, budget>>

(* recover_cb, lines 914-924: create_jack(card, false) for the next card of
   the pass; after the last card stoped is cleared. *)
RecoverLoop ==
    /\ UNCHANGED <<io, ab, wk>>
    /\ alive /\ main.pc = "rec_loop"
    /\ LET c == cards[main.idx]
       IN \E o \in create_jack(card[c], c, FALSE, client, serverUp) :
          /\ o.f <= FaultsLeft
          /\ Spend(0, 0, IF o.res = "abort" THEN 0 ELSE o.f)
          /\ CASE o.res = "abort" ->
                   /\ alive' = FALSE
                   /\ client' = o.cl
                   /\ serverUp' = o.up
                   /\ UNCHANGED <<base, card, main>>
              [] o.res = "false" ->
                   /\ base' = [base EXCEPT !.recover_event = RetryDelay]
                   /\ main' = Idle
                   /\ serverUp' = o.up
                   /\ UNCHANGED <<alive, card, client>>
              [] o.res = "true" ->
                   /\ card' = [card EXCEPT ![c] = o.cr]
                   /\ client' = o.cl
                   /\ serverUp' = o.up
                   /\ IF main.idx = Len(cards)
                      THEN /\ base' = [base EXCEPT !.stoped = FALSE]
                           /\ main' = Idle
                      ELSE /\ main' = [main EXCEPT !.idx = @ + 1]
                           /\ UNCHANGED base
                   /\ UNCHANGED alive
    /\ UNCHANGED <<coreState, hostDefSink, hostDefSource, stream, modState, cards>>

(* One second passes; an expired timer is dispatched first. *)
Tick ==
    /\ UNCHANGED <<io, ab, wk>>
    /\ alive /\ main.pc = "idle"
    /\ \/ base.recover_event > 0
       \/ \E c \in CardIds : card[c].time_event > 0
    /\ base.recover_event # 0
    /\ \A c \in CardIds : card[c].time_event # 0
    /\ base' = [base EXCEPT !.recover_event = IF @ > 0 THEN @ - 1 ELSE @]
    /\ card' = [c \in CardIds |->
                  [card[c] EXCEPT !.time_event = IF @ > 0 THEN @ - 1 ELSE @]]
    /\ UNCHANGED <<alive, coreState, hostDefSink, hostDefSource, stream, modState,
                   cards, serverUp, client, main, budget>>

----------------------------------------------------------------------------
(* The data path of one card: jack_process on the JACK process thread of the
   card's client, the card's worker thread that dispatches jack_msgq and the
   latency requests, and the two clocks. *)

MainVars == <<coreState, hostDefSink, hostDefSource, stream, modState,
              base, cards, card, serverUp, client, main, budget>>

(* What jack_port_get_latency_range reports as r.max, in frames. *)
PortLatencies == {0, 1}

(* jack_frame_time(k).  With a NULL handle the library either faults or logs
   an error and returns 0. *)
jack_frame_time(k) ==
    IF k = NoClient
    THEN {[fault |-> TRUE, ft |-> 0], [fault |-> FALSE, ft |-> 0]}
    ELSE {[fault |-> FALSE, ft |-> io.ft]}

(* A port of the bridge that is not NULL and is not a port of the client the
   card holds: jack_port_get_buffer for it has no buffer to return. *)
StalePorts(cr, isSink) ==
    LET arr == IF isSink THEN cr.sink_port ELSE cr.source_port
        n == IF isSink THEN cr.sink_channels ELSE cr.source_channels
    IN {i \in PortIdx : i < n /\ arr[i] # NoPort /\ arr[i][1] # cr.jack}

(* The process thread of client k may run the process callback. *)
ProcessRuns(k) ==
    /\ io.card # 0
    /\ client[k].st = "open" /\ client[k].active
    /\ "process" \in client[k].cbs
    /\ client[k].card = io.card

(* A send that returns at once, as pa_asyncmsgq_post does. *)
SendReturns == "capture"

(* pa_asyncmsgq_send, line 316: jack_process is held at the send until the
   worker has replied. *)
SendWaits == "render"

(* jack_process, lines 311-317: the buffers of the sink ports are fetched and
   RENDER is sent to the worker; the thread waits for the reply. *)
ProcessSink(k) ==
    /\ UNCHANGED <<MainVars, ab, wk>>
    /\ alive /\ ProcessRuns(k)
    /\ io.jp = "idle" /\ io.cycle < MaxCycles
    /\ LET cr == card[io.card]
           io1 == [io EXCEPT !.cycle = @ + 1]
       IN IF cr.sink = "none"
          THEN /\ io' = [io1 EXCEPT !.jp = "capture"]
               /\ UNCHANGED alive
          ELSE \/ \* pa_assert_se on the buffer of a stale port
                  /\ StalePorts(cr, TRUE) # {}
                  /\ alive' = FALSE
                  /\ io' = io1
               \/ \E o \in jack_frame_time(cr.jack) :
                    IF o.fault
                    THEN /\ alive' = FALSE
                         /\ io' = io1
                    ELSE /\ io' = [io1 EXCEPT
                                     !.frame_time = o.ft,
                                     !.jack_msgq = Append(@,
                                        [code |-> "RENDER", data |-> o.ft,
                                         offset |-> NFrames, chunk |-> 0]),
                                     !.jp = SendWaits]
                         /\ UNCHANGED alive

(* The capture memblock of cycle n that is never unreferenced by jack_process. *)
CaptureBlockKept(refs, n) == [refs EXCEPT ![n] = 1 + 1]

(* jack_process, lines 319-331; with its return the port buffers of the cycle
   are JACK's again.
   jack_process, lines 325-331: pa_memblock_new gives the one reference of the
   process thread, pa_asyncmsgq_post takes one for the queue, and
   pa_memblock_unref drops the one of the process thread. *)
CaptureBlock(refs, n) == [refs EXCEPT ![n] = 1 + 1 - 1]

(* jack_process, lines 318-334: the capture buffers are interleaved into a new
   memblock and POST is posted to the worker without waiting. *)
ProcessSource ==
    /\ UNCHANGED <<MainVars, ab, wk>>
    /\ alive /\ io.card # 0 /\ io.jp = "capture"
    /\ LET cr == card[io.card]
       IN IF cr.source = "none"
          THEN /\ io' = [io EXCEPT !.jp = "idle", !.sink_buffer = NoBuffers]
               /\ UNCHANGED alive
          ELSE \/ /\ StalePorts(cr, FALSE) # {}
                  /\ alive' = FALSE
                  /\ io' = io
               \/ \E o \in jack_frame_time(cr.jack) :
                    IF o.fault
                    THEN /\ alive' = FALSE
                         /\ io' = io
                    ELSE /\ io' = [io EXCEPT
                                     !.frame_time = o.ft,
                                     !.refs = CaptureBlock(@, io.cycle),
                                     !.jack_msgq = Append(@,
                                        [code |-> "POST", data |-> 0,
                                         offset |-> o.ft, chunk |-> io.cycle]),
                                     !.sink_buffer = NoBuffers,
                                     !.jp = "idle"]
                         /\ UNCHANGED alive

(* A worker that takes the newest message of the queue. *)
TakeLast(q) == [m |-> q[Len(q)], rest |-> SubSeq(q, 1, Len(q) - 1)]

(* pa_rtpoll_run on the item of jack_msgq (lines 350, 474): the worker takes
   the oldest message of the queue. *)
TakeMessage(q) == [m |-> Head(q), rest |-> Tail(q)]

(* sink->thread_info.rewind_requested after RENDER: lines 224-227 save it,
   clear it for pa_sink_render_full and write the saved value back; the
   silence branch does not touch it. *)
RestoreRewind(rr, running) ==
    IF running
    THEN LET rewind_requested == rr
             cleared == FALSE
             rendered == cleared
         IN rewind_requested
    ELSE rr

(* A handler that looks at the state of the sink only. *)
RendersWhenRunning(state, stoped) == state = "RUNNING"

(* sink_process_msg RENDER, line 215: whether the host is asked to render. *)
Renders(state, stoped) == (state = "RUNNING") /\ (~stoped)

(* sink_process_msg RENDER, lines 229-230 and 245-246: what the handler writes
   into the scratch buffers sink_buffer[0 .. channels-1], the port buffers of
   this cycle. *)
FillBuffers(running, channels) ==
    [c \in PortIdx |-> IF c < channels
                       THEN IF running THEN "audio" ELSE "silence"
                       ELSE "stale"]

(* thread_func, lines 347-365: jack_msgq is served by pa_rtpoll_run only; after
   `goto fail` the worker waits on thread_mq.inq alone. *)
InPollLoop(pc) == pc = "poll"

(* thread_func dispatching one message of jack_msgq: sink_process_msg RENDER
   (lines 213-252) or source_process_msg POST (lines 153-164).  After the
   handler pa_asyncmsgq_done drops the queue's reference on the chunk and, for
   RENDER, the reply lets jack_process go on. *)
WorkerDispatch ==
    /\ UNCHANGED <<alive, MainVars, ab, wk>>
    /\ alive /\ io.card # 0 /\ card[io.card].thread = "running"
    /\ InPollLoop(wk.pc[io.card])
    /\ io.jack_msgq # <<>>
    /\ LET t == TakeMessage(io.jack_msgq)
           m == t.m
       IN IF m.code = "RENDER"
          THEN LET running == /\ card[io.card].sink = "linked"
                               /\ Renders(io.sinkState, base.stoped)
               IN io' = [io EXCEPT
                           !.sink_buffer = FillBuffers(running,
                                              card[io.card].sink_channels),
                           !.jack_msgq = t.rest,
                           !.sink_timestamp = IF running THEN io.now ELSE @,
                           !.render_refs = IF running THEN 1 - 1 ELSE 0,
                           !.frames_in_buffer = m.offset,
                           !.saved_frame_time = m.data,
                           !.saved_frame_time_valid = TRUE,
                           !.rewind_requested = RestoreRewind(@, running),
                           !.jp = "capture"]
          ELSE io' = [io EXCEPT
                        !.jack_msgq = t.rest,
                        !.posted = IF /\ card[io.card].source = "linked"
                                      /\ io.sourceState = "RUNNING"
                                   THEN Append(@, m.chunk) ELSE @,
                        !.saved_frame_time = m.offset,
                        !.saved_frame_time_valid = TRUE,
                        !.source_timestamp = io.now,
                        !.refs[m.chunk] = @ - 1]

(* The frozen latency that is the time passed since the timestamp. *)
ElapsedLatency(ts, now) == IF now > ts THEN now - ts ELSE 0

(* GET_LATENCY while stoped, lines 291-292 and 198-199. *)
StoppedLatency(ts, now) == IF ts > now THEN ts - now ELSE 0

(* sink_process_msg GET_LATENCY, line 274: whether the worst case is adjusted
   by the frames passed since the last RENDER. *)
SinkAdjusts(cr) == io.saved_frame_time_valid /\ cr.jack = NoClient

(* PA_SINK_MESSAGE_GET_LATENCY (lines 264-296) and
   PA_SOURCE_MESSAGE_GET_LATENCY (lines 172-204), handled by the worker for a
   request of the main thread; the report is kept in frames. *)
GetLatency(isSink) ==
    /\ UNCHANGED <<MainVars, ab, wk>>
    /\ alive /\ io.card # 0 /\ main.pc = "idle"
    /\ card[io.card].thread = "running"
    /\ HasBridge(card[io.card], isSink)
    /\ LET cr == card[io.card]
           dir == IF isSink THEN "sink" ELSE "source"
           saved == io.saved_frame_time
           d(ft) == IF ft > saved THEN ft - saved ELSE 0
           report(v, g, r) == [dir |-> dir, stoped |-> base.stoped, value |-> v,
                               graph |-> g, r |-> r]
       IN IF ~base.stoped
          THEN \E r \in PortLatencies :
                 IF isSink
                 THEN LET l == r + io.frames_in_buffer
                      IN IF SinkAdjusts(cr)
                         THEN \E o \in jack_frame_time(cr.jack) :
                                IF o.fault
                                THEN /\ alive' = FALSE
                                     /\ io' = io
                                ELSE /\ io' = [io EXCEPT !.lat =
                                          report(IF l > d(o.ft) THEN l - d(o.ft)
                                                 ELSE 0, TRUE, r)]
                                     /\ UNCHANGED alive
                         ELSE /\ io' = [io EXCEPT !.lat = report(l, TRUE, r)]
                              /\ UNCHANGED alive
                 ELSE IF io.saved_frame_time_valid
                      THEN \E o \in jack_frame_time(cr.jack) :
                             IF o.fault
                             THEN /\ alive' = FALSE
                                  /\ io' = io
                             ELSE /\ io' = [io EXCEPT !.lat =
                                              report(r + d(o.ft), TRUE, r)]
                                  /\ UNCHANGED alive
                      ELSE /\ io' = [io EXCEPT !.lat = report(r, TRUE, r)]
                           /\ UNCHANGED alive
          ELSE /\ io' = [io EXCEPT !.lat =
                           report(StoppedLatency(IF isSink THEN io.sink_timestamp
                                                 ELSE io.source_timestamp, io.now),
                                  FALSE, 0)]
               /\ UNCHANGED alive

(* The host suspends or resumes the sink or the source of the card. *)
HostSetState(isSink) ==
    /\ UNCHANGED <<alive, MainVars, ab, wk>>
    /\ alive /\ io.card # 0
    /\ LET flip(s) == IF s = "RUNNING" THEN "SUSPENDED" ELSE "RUNNING"
       IN io' = IF isSink THEN [io EXCEPT !.sinkState = flip(@)]
                ELSE [io EXCEPT !.sourceState = flip(@)]

(* The host asks the sink of the card for a rewind, or has processed one: the
   flag that lines 224-227 save and restore. *)
RequestRewind ==
    /\ UNCHANGED <<alive, MainVars, ab, wk>>
    /\ alive /\ io.card # 0 /\ card[io.card].sink = "linked"
    /\ io' = [io EXCEPT !.rewind_requested = ~@]

(* The frame clock of the JACK server advances. *)
FrameTick ==
    /\ UNCHANGED <<alive, MainVars, ab, wk>>
    /\ alive /\ io.card # 0 /\ serverUp
    /\ io.ft < MaxFrames
    /\ io' = [io EXCEPT !.ft = @ + 1]

(* One second passes on pa_rtclock_now() and for the timers; an expired timer
   is dispatched first. *)
ClockTick ==
    /\ UNCHANGED <<alive, coreState, hostDefSink, hostDefSource, stream, modState,
                   cards, serverUp, client, main, budget, ab, wk>>
    /\ alive /\ io.card # 0 /\ main.pc = "idle"
    /\ io.now < MaxTime
    /\ base.recover_event # 0
    /\ \A c \in CardIds : card[c].time_event # 0
    /\ base' = [base EXCEPT !.recover_event = IF @ > 0 THEN @ - 1 ELSE @]
    /\ card' = [c \in CardIds |->
                  [card[c] EXCEPT !.time_event = IF @ > 0 THEN @ - 1 ELSE @]]
    /\ io' = [io EXCEPT !.now = @ + 1]

(* The module after pa__init with connect=a and otherwise its default options,
   no stream in the host and every call having succeeded: the card
   "PulseAudio" with its sink and source. *)
Loaded(a) ==
    /\ alive = TRUE
    /\ coreState = "RUNNING"
    /\ hostDefSink = CardDev(1)
    /\ hostDefSource = CardDev(1)
    /\ stream = [s \in StreamIds |-> NoStream]
    /\ modState = "loaded"
    /\ base = [NoBase EXCEPT !.autoconnect = a, !.merge = 1, !.delay = 2,
                             !.default_sink = PriorDev,
                             !.default_source = PriorDev, !.hooks = TRUE]
    /\ cards = <<1>>
    /\ card = [c \in CardIds |->
                 IF c = 1
                 THEN [FreeCard EXCEPT
                         !.name = "PulseAudio", !.thread = "running", !.jack = 1,
                         !.sink = "linked", !.source = "linked",
                         !.sink_channels = DefaultChannels,
                         !.source_channels = DefaultChannels,
                         !.sink_port = [i \in PortIdx |->
                                          <<1, PortName(TRUE, i, DefaultChannels)>>],
                         !.source_port = [i \in PortIdx |->
                                          <<1, PortName(FALSE, i, DefaultChannels)>>]]
                 ELSE FreeCard]
    /\ serverUp = TRUE
    /\ client = [k \in ClientIds |->
                   IF k = 1
                   THEN [st |-> "open", card |-> 1, cbs |-> Callbacks,
                         active |-> TRUE,
                         ports |-> {PortName(s, i, DefaultChannels) :
                                      s \in BOOLEAN, i \in PortIdx},
                         pending |-> FALSE]
                   ELSE FreeClient]
    /\ main = Idle

(* The data path of the card "PulseAudio" is followed from there. *)
InitIO ==
    /\ Loaded(TRUE)
    /\ budget = [puts |-> 0, outages |-> MaxOutages, faults |-> 0]
    /\ io \in {[NoIo EXCEPT !.card = 1, !.sinkState = a, !.sourceState = b] :
                 a, b \in {"RUNNING", "SUSPENDED"}}
    /\ ab = NoAb
    /\ wk = NoWk

NextIO ==
    \/ \E k \in ClientIds : ProcessSink(k)
    \/ ProcessSource
    \/ WorkerDispatch
    \/ \E isSink \in BOOLEAN : GetLatency(isSink)
    \/ \E isSink \in BOOLEAN : HostSetState(isSink)
    \/ FrameTick
    \/ ClockTick
    \/ ServerDies
    \/ ServerStarts
    \/ \E k \in ClientIds : JackShutdown(k)
    \/ RecoverCb
    \/ RecoverLoop

SpecIO == InitIO /\ [][NextIO]_vars

(* The data path until the module is unloaded. *)
NextMem ==
    \/ \E k \in ClientIds : ProcessSink(k)
    \/ ProcessSource
    \/ WorkerDispatch
    \/ \E isSink \in BOOLEAN : HostSetState(isSink)
    \/ FrameTick
    \/ ClockTick
    \/ RequestRewind
    \/ PaDone
    \/ DoneLoop
    \/ UnloadMove
    \/ UnloadTimeFree
    \/ UnloadClose
    \/ UnloadJoin
    \/ UnloadFree

SpecMem == InitIO /\ [][NextMem]_vars

----------------------------------------------------------------------------
(* The port loop of add_bridge, lines 610-679, followed port by port for one
   call.  ab.phys is the number of physical ports jack_get_ports returns (0:
   it returns NULL), ab.refuse the port whose jack_connect fails and ab.regfail
   the port whose jack_port_register fails, both counted from 1 (0: none). *)

(* A loop that goes on connecting after a failure. *)
KeepConnecting(auto) == auto

(* lines 653, 657, 666, 670: autoconnect = false, on the local copy. *)
StopConnecting(auto) == FALSE

(* lines 611-614: the local autoconnect is copied from the option of the
   module and the physical ports are asked for. *)
PortLoopStart ==
    /\ UNCHANGED <<alive, MainVars, io, wk>>
    /\ alive /\ ab.pc = "start"
    /\ ab' = [ab EXCEPT !.pc = "loop", !.i = 0,
                        !.autoconnect = base.autoconnect]

(* lines 614-675: port i is registered and, while autoconnect holds, connected
   to the physical port p = ports + i. *)
PortLoopStep ==
    /\ UNCHANGED <<alive, MainVars, io, wk>>
    /\ alive /\ ab.pc = "loop" /\ ab.i < ab.channels
    /\ LET name == PortName(ab.sink, ab.i, ab.channels)
           ab1 == [ab EXCEPT !.i = @ + 1, !.registered = Append(@, name)]
       IN IF ab.regfail = ab.i + 1
          THEN \* "jack_port_register() failed.", "add_bridge fatal error"
               ab' = [ab EXCEPT !.pc = "failed", !.logged = @ + 2]
          ELSE IF ~ab.autoconnect
          THEN ab' = ab1
          ELSE IF ab.i >= ab.phys
          THEN \* !p || !*p
               ab' = [ab1 EXCEPT !.logged = @ + 1,
                                 !.autoconnect = StopConnecting(@)]
          ELSE IF ab.refuse = ab.i + 1
          THEN ab' = [ab1 EXCEPT !.logged = @ + 1,
                                 !.autoconnect = StopConnecting(@)]
          ELSE ab' = [ab1 EXCEPT !.connected = @ \cup {<<name, ab.i>>}]

(* lines 676-679: the list of physical ports is freed and add_bridge returns. *)
PortLoopEnd ==
    /\ UNCHANGED <<alive, MainVars, io, wk>>
    /\ alive /\ ab.pc = "loop" /\ ab.i = ab.channels
    /\ ab' = [ab EXCEPT !.pc = "done"]

(* One add_bridge call of the loaded module that reaches the port loop, for a
   bridge of 1..MaxChannels channels. *)
InitPorts ==
    /\ \E a \in BOOLEAN : Loaded(a)
    /\ budget = [puts |-> 0, outages |-> 0, faults |-> 0]
    /\ io = NoIo
    /\ wk = NoWk
    /\ ab \in {[NoAb EXCEPT !.pc = "start", !.sink = s, !.channels = n,
                            !.phys = k, !.refuse = x, !.regfail = y] :
                 s \in BOOLEAN, n \in 1..MaxChannels, k \in 0..MaxChannels,
                 x \in 0..MaxChannels, y \in 0..MaxChannels}

NextPorts ==
    \/ PortLoopStart
    \/ PortLoopStep
    \/ PortLoopEnd

SpecPorts == InitPorts /\ [][NextPorts]_vars

----------------------------------------------------------------------------
(* The fail path of thread_func, lines 350-365, statement by statement: the
   workers of different cards run it at the same time and share
   base->unloading. *)

(* pa_rtpoll_run returns an error: the worker of card c leaves its loop. *)
WorkerFails(c) ==
    /\ UNCHANGED <<alive, MainVars, io, ab>>
    /\ alive /\ card[c].thread = "running" /\ wk.pc[c] = "poll"
    /\ wk' = [wk EXCEPT !.pc[c] = "fail"]

(* line 362: the worker reads base->unloading. *)
ReadsUnloading(b) == b.unloading

(* line 362: if (!card->base->unloading) *)
WorkerTest(c) ==
    /\ UNCHANGED <<alive, MainVars, io, ab>>
    /\ alive /\ wk.pc[c] = "fail"
    /\ wk' = [wk EXCEPT !.pc[c] = IF ReadsUnloading(base) THEN "set" ELSE "post"]

(* line 363: UNLOAD_MODULE is posted to the host. *)
WorkerPost(c) ==
    /\ UNCHANGED <<alive, MainVars, io, ab>>
    /\ alive /\ wk.pc[c] = "post"
    /\ wk' = [wk EXCEPT !.pc[c] = "set", !.posted = @ + 1]

(* lines 364-365: the flag is set and the worker waits for SHUTDOWN. *)
WorkerSet(c) ==
    /\ UNCHANGED <<alive, coreState, hostDefSink, hostDefSource, stream, modState,
                   cards, card, serverUp, client, main, budget, io, ab>>
    /\ alive /\ wk.pc[c] = "set"
    /\ base' = [base EXCEPT !.unloading = TRUE]
    /\ wk' = [wk EXCEPT !.pc[c] = "wait"]

(* The loaded module with the card "PulseAudio" and the card "foo", which a
   2-channel sink-input of the application foo (pid 42) has created. *)
LoadedTwo ==
    /\ alive = TRUE
    /\ coreState = "RUNNING"
    /\ hostDefSink = CardDev(1)
    /\ hostDefSource = CardDev(1)
    /\ stream = [s \in StreamIds |->
                   IF s = 1
                   THEN [st |-> "live", sink |-> TRUE, app |-> 1, ch |-> 2,
                         dont_move |-> FALSE, dev |-> CardDev(2)]
                   ELSE NoStream]
    /\ modState = "loaded"
    /\ base = [NoBase EXCEPT !.autoconnect = TRUE, !.merge = 1, !.delay = 2,
                             !.default_sink = PriorDev,
                             !.default_source = PriorDev, !.hooks = TRUE]
    /\ cards = <<1, 2>>
    /\ card = [c \in CardIds |->
                 CASE c = 1 ->
                        [FreeCard EXCEPT
                           !.name = "PulseAudio", !.thread = "running", !.jack = 1,
                           !.sink = "linked", !.source = "linked",
                           !.sink_channels = DefaultChannels,
                           !.source_channels = DefaultChannels,
                           !.sink_port = [i \in PortIdx |->
                                            <<1, PortName(TRUE, i, DefaultChannels)>>],
                           !.source_port = [i \in PortIdx |->
                                            <<1, PortName(FALSE, i, DefaultChannels)>>]]
                   [] c = 2 ->
                        [FreeCard EXCEPT
                           !.name = Apps[1].name,
                           !.merge_ref = get_merge_ref(Apps[1], 1),
                           !.thread = "running", !.jack = 2,
                           !.sink = "linked", !.inputs = {1},
                           !.sink_channels = 2,
                           !.sink_port = [i \in PortIdx |->
                                            <<2, PortName(TRUE, i, 2)>>]]
                   [] OTHER -> FreeCard]
    /\ serverUp = TRUE
    /\ client = [k \in ClientIds |->
                   CASE k = 1 ->
                          [st |-> "open", card |-> 1, cbs |-> Callbacks,
                           active |-> TRUE,
                           ports |-> {PortName(s, i, DefaultChannels) :
                                        s \in BOOLEAN, i \in PortIdx},
                           pending |-> FALSE]
                     [] k = 2 ->
                          [st |-> "open", card |-> 2, cbs |-> Callbacks,
                           active |-> TRUE,
                           ports |-> {PortName(TRUE, i, 2) : i \in PortIdx},
                           pending |-> FALSE]
                     [] OTHER -> FreeClient]
    /\ main = Idle

InitWorkers ==
    /\ LoadedTwo
    /\ budget = [puts |-> 0, outages |-> 0, faults |-> 0]
    /\ io = NoIo
    /\ ab = NoAb
    /\ wk = NoWk

(* The workers' fail path, and the unload the host makes on UNLOAD_MODULE. *)
NextWorkers ==
    \/ \E c \in CardIds : WorkerFails(c)
    \/ \E c \in CardIds : WorkerTest(c)
    \/ \E c \in CardIds : WorkerPost(c)
    \/ \E c \in CardIds : WorkerSet(c)
    \/ PaDone
    \/ DoneLoop
    \/ UnloadMove
    \/ UnloadTimeFree
    \/ UnloadClose
    \/ UnloadJoin
    \/ UnloadFree

SpecWorkers == InitWorkers /\ [][NextWorkers]_vars

----------------------------------------------------------------------------

Next ==
    \/ PaInit
    \/ InitSource
    \/ InitDefaults
    \/ InitPrepare
    \/ PaDone
    \/ DoneLoop
    \/ CoreRun
    \/ StreamPut
    \/ AddBridgeCreate
    \/ AddBridgeJack
    \/ PutTail
    \/ \E s \in StreamIds : StreamUnlink(s)
    \/ \E c \in CardIds : TimeoutCb(c)
    \/ UnloadMove
    \/ UnloadTimeFree
    \/ UnloadClose
    \/ UnloadJoin
    \/ UnloadFree
    \/ ServerDies
    \/ ServerStarts
    \/ \E k \in ClientIds : JackShutdown(k)
    \/ RecoverCb
    \/ RecoverLoop
    \/ Tick

Spec == Init /\ [][Next]_vars

(* Streams of applications that have set no application.process.id, next to
   one that has. *)
BareKinds == {
    [sink |-> TRUE,  app |-> 3, ch |-> 2, dont_move |-> FALSE],
    [sink |-> TRUE,  app |-> 4, ch |-> 1, dont_move |-> FALSE],
    [sink |-> FALSE, app |-> 4, ch |-> 1, dont_move |-> FALSE],
    [sink |-> TRUE,  app |-> 1, ch |-> 2, dont_move |-> FALSE] }

BarePut == StreamPutOf(BareKinds)

(* The module loaded with merge=1; the streams of BareKinds come and go. *)
InitMerge ==
    /\ Loaded(TRUE)
    /\ budget \in {[puts |-> MaxPuts, outages |-> 0, faults |-> f] : f \in 0..MaxFaults}
    /\ io = NoIo
    /\ ab = NoAb
    /\ wk = NoWk

NextMerge ==
    \/ BarePut
    \/ AddBridgeCreate
    \/ AddBridgeJack
    \/ PutTail
    \/ \E s \in StreamIds : StreamUnlink(s)
    \/ \E c \in CardIds : TimeoutCb(c)
    \/ UnloadMove
    \/ UnloadTimeFree
    \/ UnloadClose
    \/ UnloadJoin
    \/ UnloadFree
    \/ Tick

SpecMerge == InitMerge /\ [][NextMerge]_vars

(* Outage and recovery with two cards: the server goes away MaxOutages times
   and at most MaxFaults library calls of the recovery fail. *)
InitRecover ==
    /\ LoadedTwo
    /\ budget \in {[puts |-> 0, outages |-> MaxOutages, faults |-> f] :
                      f \in 0..MaxFaults}
    /\ io = NoIo
    /\ ab = NoAb
    /\ wk = NoWk

NextRecover ==
    \/ ServerDies
    \/ ServerStarts
    \/ \E k \in ClientIds : JackShutdown(k)
    \/ RecoverCb
    \/ RecoverLoop
    \/ Tick

(* The main loop dispatches an expired timer and goes on with a pass it has
   begun, time passes, the JACK library delivers a pending shutdown callback,
   and a server that is down is started again; the outages are bounded. *)
SpecRecover ==
    /\ InitRecover /\ [][NextRecover]_vars
    /\ WF_vars(ServerStarts)
    /\ \A k \in ClientIds : WF_vars(JackShutdown(k))
    /\ WF_vars(RecoverCb)
    /\ WF_vars(RecoverLoop)
    /\ WF_vars(Tick)

(* The unload of the card "PulseAudio" with its three threads: the process
   thread of its client, its worker (in the poll loop or in the fail path) and
   the main thread in pa__done. *)
InitUnload ==
    /\ Loaded(TRUE)
    /\ budget = [puts |-> 0, outages |-> 0, faults |-> 0]
    /\ io \in {[NoIo EXCEPT !.card = 1, !.sinkState = a, !.sourceState = b] :
                 a, b \in {"RUNNING", "SUSPENDED"}}
    /\ ab = NoAb
    /\ wk = NoWk

NextUnload ==
    \/ \E k \in ClientIds : ProcessSink(k)
    \/ ProcessSource
    \/ WorkerDispatch
    \/ \E c \in CardIds : WorkerFails(c)
    \/ \E c \in CardIds : WorkerTest(c)
    \/ \E c \in CardIds : WorkerPost(c)
    \/ \E c \in CardIds : WorkerSet(c)
    \/ PaDone
    \/ DoneLoop
    \/ UnloadMove
    \/ UnloadTimeFree
    \/ UnloadClose
    \/ UnloadJoin
    \/ UnloadFree

(* Every thread that can take a step takes it; the host unloads the module at
   some time.  Whether JACK starts a cycle and whether the poll of a worker
   fails is left open. *)
SpecUnload ==
    /\ InitUnload /\ [][NextUnload]_vars
    /\ WF_vars(ProcessSource)
    /\ WF_vars(WorkerDispatch)
    /\ \A c \in CardIds :
          WF_vars(WorkerTest(c)) /\ WF_vars(WorkerPost(c)) /\ WF_vars(WorkerSet(c))
    /\ WF_vars(PaDone)
    /\ WF_vars(DoneLoop)
    /\ WF_vars(UnloadMove)
    /\ WF_vars(UnloadTimeFree)
    /\ WF_vars(UnloadClose)
    /\ WF_vars(UnloadJoin)
    /\ WF_vars(UnloadFree)

(* The data path of a card while the put hooks build it: the card that the
   first put creates takes slot 2, and its client runs process cycles from
   jack_activate on (create_jack, line 432), while the main thread is still in
   create_card, add_bridge and the rest of the hook. *)
InitBuild ==
    /\ Loaded(TRUE)
    /\ budget \in {[puts |-> MaxPuts, outages |-> 0, faults |-> f] :
                      f \in 0..MaxFaults}
    /\ io = [NoIo EXCEPT !.card = 2]
    /\ ab = NoAb
    /\ wk = NoWk

NextBuild ==
    \/ StreamPut
    \/ AddBridgeCreate
    \/ AddBridgeJack
    \/ PutTail
    \/ \E k \in ClientIds : ProcessSink(k)
    \/ ProcessSource
    \/ WorkerDispatch

SpecBuild == InitBuild /\ [][NextBuild]_vars

----------------------------------------------------------------------------
(* Properties *)

(* C1: every card of the cards set has a sink or a source, in every state:
   also between create_card and add_bridge, and after an add_bridge that
   fails. *)
C1_CardHasBridge ==
    \A c \in SeqToSet(cards) : card[c].sink # "none" \/ card[c].source # "none"

(* C2: for every card of the cards set and each direction it has, as many
   ports are registered as the direction has channels; stated for the states
   in which no handler is running. *)
C2_PortsMatchChannels ==
    LET PortCount(ports) == Cardinality({i \in PortIdx : ports[i] # NoPort})
    IN (alive /\ main.pc = "idle") =>
        \A c \in SeqToSet(cards) :
            /\ card[c].sink # "none" =>
                   PortCount(card[c].sink_port) = card[c].sink_channels
            /\ card[c].source # "none" =>
                   PortCount(card[c].source_port) = card[c].source_channels

(* C3, as the specification states it: while stoped is set every card of the
   cards set has a NULL client handle. *)
C3_StoppedAllNull ==
    base.stoped => \A c \in SeqToSet(cards) : card[c].jack = NoClient

(* C3, amended: when a shutdown callback returns, stoped is set, the recover
   timer is armed one second ahead and every card of the cards set has a NULL
   client handle. *)
C3_ShutdownNullsAll ==
    [][ ( /\ alive /\ alive'
          /\ modState \in {"init", "loaded"}
          /\ main' = main
          /\ \E k \in ClientIds : client[k].pending /\ ~client'[k].pending )
        => ( /\ base'.stoped
             /\ base'.recover_event = RecoverDelay
             /\ \A c \in SeqToSet(cards') : card'[c].jack = NoClient ) ]_vars

(* C3: a shutdown callback has returned and has left two cards without a
   handle. *)
C3_Witness ==
    /\ alive /\ modState = "loaded"
    /\ base.stoped /\ base.recover_event = RecoverDelay
    /\ Len(cards) >= 2
    /\ \A c \in SeqToSet(cards) : card[c].jack = NoClient

(* C4, as the specification states it: nothing a card owns is released while
   its worker thread has not been joined. *)
C4_NothingReleasedBeforeJoin ==
    \A c \in CardIds : card[c].freed # {} => card[c].thread = "joined"

(* C4, amended: the teardown timer and the external client are the only things
   released before the worker thread is joined; the message queues, the sink,
   the source, the poll item, the poll set, the stream sets and the card are
   released, and the card leaves the cards set, after the join. *)
C4_CardReleasedAfterJoin ==
    [][ \A c \in CardIds :
          /\ (card[c].thread = "running" /\ c \in SeqToSet(cards))
                => ( /\ c \in SeqToSet(cards')
                     /\ card'[c].freed \subseteq {"time_event", "jack"} )
          /\ (c \in SeqToSet(cards) /\ c \notin SeqToSet(cards'))
                => card[c].thread = "joined" ]_vars

(* C4: a forced unload has closed the client and joined the worker and is
   about to release the rest. *)
C4_Witness ==
    /\ alive /\ main.pc = "ul_free"
    /\ card[main.card].thread = "joined"
    /\ card[main.card].freed = {"time_event", "jack"}

(* C5: with merge=1 (by process id) there is one card for a process id, a
   card's stream sets hold streams of its process id only, and every put of a
   movable stream while the host is RUNNING leaves the stream in the inputs
   (outputs) set of the card of its process id. *)
C5_MergeByPid ==
    [][ (alive' /\ base.merge = 1 /\ base.hooks /\ base'.hooks) =>
        /\ \A c1, c2 \in SeqToSet(cards') :
              (card'[c1].merge_ref # NullStr
                 /\ card'[c1].merge_ref = card'[c2].merge_ref) => c1 = c2
        /\ \A c \in SeqToSet(cards') :
              \A s \in card'[c].inputs \cup card'[c].outputs :
                 /\ stream'[s].st = "live"
                 /\ stream'[s].sink = (s \in card'[c].inputs)
                 /\ Apps[stream'[s].app].pid = card'[c].merge_ref
        /\ (main.pc = "put_tail" /\ main' # main) =>
              /\ main.s \in (IF main.sink THEN card'[main.card].inputs
                                          ELSE card'[main.card].outputs)
              /\ card'[main.card].merge_ref = Apps[stream[main.s].app].pid
        /\ \A s \in StreamIds :
              ( /\ coreState = "RUNNING" /\ ~stream'[s].dont_move
                /\ \/ (stream[s].st = "none" /\ stream'[s].st = "live")
                   \/ (main.pc = "init_prepare" /\ main' # main
                         /\ main.todo # <<>> /\ Head(main.todo) = s) )
              => \/ (main'.pc = "ab_create" /\ main'.s = s)
                 \/ \E c \in SeqToSet(cards') :
                       /\ s \in (IF stream'[s].sink THEN card'[c].inputs
                                                     ELSE card'[c].outputs)
                       /\ card'[c].merge_ref = Apps[stream'[s].app].pid ]_vars

(* C5: two sink-inputs of one process are in the inputs set of one card. *)
C5_Witness ==
    /\ alive /\ base.merge = 1 /\ main.pc = "idle"
    /\ \E c \in SeqToSet(cards) : Cardinality(card[c].inputs) = 2

(* C6: with merge=0 the put of a movable stream, while the host is RUNNING,
   the card has its bridge and its client, completes. *)
C6_PutCompletes ==
    [][ ( /\ alive /\ base.merge = 0
          /\ main.pc = "put_tail"
          /\ HasBridge(card[main.card], main.sink)
          /\ card[main.card].jack # NoClient )
        => alive' ]_vars

(* C7: with delay > 0, an unlink arms the card's teardown timer delay seconds
   ahead; while the module is loaded a card leaves the cards set only by the
   forced unload that its expired timer starts; and the timer that expires
   with no stream on the card starts that unload, which removes the card. *)
C7_DelayedTeardown ==
    [][ (alive /\ alive' /\ modState = "loaded" /\ modState' = "loaded"
           /\ base.delay > 0) =>
        \A c \in SeqToSet(cards) :
          /\ (\E s \in StreamIds :
                 /\ s \in card[c].inputs \cup card[c].outputs
                 /\ s \notin card'[c].inputs \cup card'[c].outputs
                 /\ c \in SeqToSet(cards'))
                => card'[c].time_event = base.delay
          /\ (main.pc = "idle" /\ main'.pc = "ul_move" /\ main'.card = c)
                => ( /\ card[c].time_event = 0
                     /\ SinkInputsOf(c) = {} /\ SourceOutputsOf(c) = {} )
          /\ (c \notin SeqToSet(cards'))
                => (main.pc = "ul_free" /\ main.card = c /\ main.ret = "idle")
          /\ (main.pc = "idle" /\ main' # main /\ card[c].time_event = 0
                /\ card'[c].time_event = PA_USEC_INVALID
                /\ SinkInputsOf(c) = {} /\ SourceOutputsOf(c) = {})
                => (main'.pc = "ul_move" /\ main'.card = c)
          /\ (main.pc = "ul_free" /\ main.card = c /\ main' # main)
                => c \notin SeqToSet(cards') ]_vars

(* C7: the teardown timer of a card has fired and the forced unload it
   started is at its last step. *)
C7_Witness ==
    /\ alive /\ modState = "loaded" /\ base.delay > 0
    /\ main.pc = "ul_free" /\ main.ret = "idle"
    /\ card[main.card].merge_ref # NullStr

(* C8: when the teardown timer of a card expires while a stream is attached
   to the card's sink or source, the card stays in the cards set and no
   client is closed. *)
C8_LateAttachKeepsCard ==
    [][ \A c \in SeqToSet(cards) :
          ( /\ alive /\ modState = "loaded" /\ main.pc = "idle"
            /\ card[c].time_event = 0
            /\ card'[c].time_event # 0
            /\ \/ (card[c].sink # "none" /\ SinkInputsOf(c) # {})
               \/ (card[c].source # "none" /\ SourceOutputsOf(c) # {}) )
          => ( /\ alive' /\ cards' = cards
               /\ main'.pc = "idle"
               /\ card'[c].jack = card[c].jack
               /\ client' = client ) ]_vars

(* C8: the teardown timer of a card has expired and a stream recorded in the
   card is attached to its sink. *)
C8_Witness ==
    /\ alive /\ modState = "loaded" /\ main.pc = "idle"
    /\ \E c \in SeqToSet(cards) :
          /\ card[c].time_event = 0
          /\ card[c].inputs \cap SinkInputsOf(c) # {}

(* C9: after a recovery pass that ends with stoped cleared, every card of the
   cards set has a client handle, the client has the four callbacks and is
   active, and every port of every direction the card has is registered on
   that client. *)
C9_RecoveredAll ==
    [][ ( /\ alive /\ alive'
          /\ main.pc = "rec_loop" /\ main'.pc = "idle"
          /\ base.stoped /\ ~base'.stoped )
        => \A c \in SeqToSet(cards') :
             LET k == card'[c].jack
                 cr == card'[c]
             IN /\ k # NoClient
                /\ client'[k].st = "open"
                /\ client'[k].cbs = Callbacks
                /\ client'[k].active
                /\ cr.sink # "none" =>
                      \A i \in 0..(cr.sink_channels - 1) :
                         /\ cr.sink_port[i] = <<k, PortName(TRUE, i, cr.sink_channels)>>
                         /\ PortName(TRUE, i, cr.sink_channels) \in client'[k].ports
                /\ cr.source # "none" =>
                      \A i \in 0..(cr.source_channels - 1) :
                         /\ cr.source_port[i] = <<k, PortName(FALSE, i, cr.source_channels)>>
                         /\ PortName(FALSE, i, cr.source_channels) \in client'[k].ports ]_vars

(* C10: when, in a recovery pass, the open of a card's client fails, the
   process goes on, the cards and their set are as before, stoped stays set,
   the pass ends and the recover timer is armed five seconds ahead; and no
   step of a pass starts a server. *)
C10_RecoveryOpenFails ==
    [][ /\ ( /\ alive /\ main.pc = "rec_loop"
             /\ (main' # main \/ alive' # alive)
             /\ card[cards[main.idx]].jack = NoClient
             /\ client' = client )
          => ( /\ alive'
               /\ cards' = cards /\ card' = card
               /\ base.stoped /\ base'.stoped
               /\ main'.pc = "idle"
               /\ base'.recover_event = RetryDelay )
        /\ ( /\ alive /\ main.pc = "rec_loop"
             /\ (main' # main \/ alive' # alive)
             /\ ~serverUp )
          => ~serverUp' ]_vars

(* C10: a recovery pass has failed with two cards in the set. *)
C10_Witness ==
    /\ alive /\ modState = "loaded" /\ main.pc = "idle"
    /\ base.stoped /\ base.recover_event = RetryDelay
    /\ Len(cards) >= 2

(* C20: when an argument fails to parse, pa__init calls pa__done and returns
   -1, and the host is as it was before the load: no card, no client, no hook
   connected, and the default sink and source of the host unchanged. *)
C20_FailedInitLeavesHost ==
    modState = "failed" =>
        /\ cards = <<>>
        /\ \A k \in ClientIds : client[k].st # "open"
        /\ ~base.hooks
        /\ hostDefSink = PriorDev
        /\ hostDefSource = PriorDev

(* C19: when jack_client_open fails while a put hook creates a card, the
   failure is fatal for that card only: the card is not added to the cards set
   and the host process, the module and the other cards keep running. *)
C19_PutOpenFailureKeepsHost ==
    [][ (/\ alive /\ main.pc = "idle" /\ modState = "loaded"
         /\ budget'.puts < budget.puts
         /\ client' = client /\ cards' = cards)
        => (alive' /\ modState' = "loaded" /\ card' = card) ]_vars

(* C16: after an init in which every call succeeded, with no stream in the
   host, the cards set holds exactly the card "PulseAudio", which has a sink
   and a source; they are the default sink and source of the host; with the
   default channel count 2 the ports are "left", "right" for the sink and
   "left_in", "right_in" for the source. *)
C16_InitDefaultCard ==
    (alive /\ modState = "loaded" /\ budget \in Budgets) =>
        /\ Len(cards) = 1
        /\ LET c == cards[1]
               cr == card[c]
               k == cr.jack
           IN /\ cr.name = "PulseAudio"
              /\ cr.sink = "linked" /\ cr.source = "linked"
              /\ hostDefSink = CardDev(c) /\ hostDefSource = CardDev(c)
              /\ cr.sink_channels = 2 /\ cr.source_channels = 2
              /\ k # NoClient /\ client[k].st = "open"
              /\ cr.sink_port = [i \in PortIdx |-> <<k, <<"left", "right">>[i + 1]>>]
              /\ cr.source_port =
                    [i \in PortIdx |-> <<k, <<"left_in", "right_in">>[i + 1]>>]
              /\ client[k].ports = {"left", "right", "left_in", "right_in"}

C16_Witness ==
    /\ alive /\ modState = "loaded" /\ budget \in Budgets
    /\ main.pc = "idle" /\ Len(cards) = 1
    /\ card[cards[1]].name = "PulseAudio"
    /\ \A s \in StreamIds : stream[s].st # "live"

(* C17 as stated: in pa__done after an init, the defaults of the host are the
   ones saved at init, every stream attached to the sink or the source of a
   card has been moved to the saved default, the worker of every card is
   joined before the card is released, and the cards set ends empty. *)
C17_DoneMovesAll ==
    [][ /\ (modState = "unloading" /\ main.pc = "ul_move" /\ main'.pc # "ul_move") =>
              \A s \in StreamIds :
                  (stream[s].st = "live" /\ stream[s].dev = CardDev(main.card)) =>
                      /\ stream'[s].st = "live"
                      /\ stream'[s].dev = PriorDev
        /\ (modState = "unloading" /\ main.pc = "ul_free") =>
              card[main.card].thread = "joined"
        /\ (modState = "unloading" /\ modState' = "done") =>
              /\ cards' = <<>>
              /\ hostDefSink' = PriorDev /\ hostDefSource' = PriorDev ]_vars

(* C17, amended: as above, but a stream whose move the host refuses is not
   moved: it is killed when the sink or the source is unlinked. *)
C17_DoneMovesOrKills ==
    [][ /\ (modState = "unloading" /\ main.pc = "ul_move" /\ main'.pc # "ul_move") =>
              \A s \in StreamIds :
                  (stream[s].st = "live" /\ stream[s].dev = CardDev(main.card)) =>
                      \/ stream'[s].st = "live" /\ stream'[s].dev = PriorDev
                      \/ stream'[s] = NoStream
        /\ (modState = "unloading" /\ main.pc = "ul_free") =>
              card[main.card].thread = "joined"
        /\ (modState = "unloading" /\ modState' = "done") =>
              /\ cards' = <<>>
              /\ hostDefSink' = PriorDev /\ hostDefSource' = PriorDev
              /\ \A s \in StreamIds :
                    stream'[s].st = "live" => stream'[s].dev = PriorDev ]_vars

C17_Witness ==
    /\ alive /\ modState = "unloading" /\ main.pc = "ul_free"
    /\ card[main.card].thread = "joined"
    /\ \E s \in card[main.card].inputs :
          stream[s].st = "live" /\ stream[s].dev = PriorDev
    /\ \E s \in card[main.card].outputs :
          stream[s].st = "live" /\ stream[s].dev = PriorDev

(* C11: the capture chunks handed to pa_source_post are an in-order
   subsequence of the process cycles of the JACK graph, and the POST messages
   of the card are never reordered: the cycles already posted, followed by
   those of the POST messages waiting in jack_msgq, are strictly increasing
   and none is later than the current cycle. *)
C11_PostInOrder ==
    LET waiting == SelectSeq(io.jack_msgq, LAMBDA m : m.code = "POST")
        order == io.posted \o [i \in 1..Len(waiting) |-> waiting[i].chunk]
    IN /\ \A i \in 1..Len(order) : order[i] \in 1..io.cycle
       /\ \A i, j \in 1..Len(order) : i < j => order[i] < order[j]

C11_Witness ==
    /\ alive /\ io.posted = <<1, 2>>

(* C12: no memblock reference leaks across a process cycle.  The memblock of
   a RENDER is unreferenced before the reply; the bridge holds a reference on
   the capture memblock of a cycle only while the POST of that cycle waits in
   jack_msgq: none once the POST is dispatched, whether or not the source was
   RUNNING, and none once the queue is torn down. *)
C12_NoBlockLeak ==
    /\ io.render_refs = 0
    /\ \A n \in 1..MaxCycles :
          io.refs[n] = Cardinality({j \in DOMAIN io.jack_msgq :
                                      /\ io.jack_msgq[j].code = "POST"
                                      /\ io.jack_msgq[j].chunk = n})

C12_Witness ==
    /\ alive /\ io.cycle = 2 /\ io.jp = "idle"
    /\ io.posted = <<2>> /\ io.jack_msgq = <<>>
    /\ \A n \in 1..MaxCycles : io.refs[n] = 0

(* C13: while stoped is set, a latency request on the sink (the source)
   reports max(0, sink_timestamp - now) (max(0, source_timestamp - now)),
   asks neither the port latency nor the frame clock of the JACK graph, and
   reports no more than the request before it on the same device in the
   outage. *)
C13_StoppedLatency ==
    [][ (base.stoped /\ io'.lat # io.lat) =>
          LET ts == IF io'.lat.dir = "sink" THEN io.sink_timestamp
                    ELSE io.source_timestamp
              diff == ts - io.now
          IN /\ io'.lat.stoped
             /\ io'.lat.value = IF diff > 0 THEN diff ELSE 0
             /\ ~io'.lat.graph
             /\ (io.lat.stoped /\ io.lat.dir = io'.lat.dir) =>
                    io'.lat.value <= io.lat.value ]_vars

C13_Witness ==
    /\ alive /\ base.stoped
    /\ io.lat.stoped /\ io.lat.dir = "sink" /\ ~io.lat.graph
    /\ io.sink_timestamp = 1 /\ io.now = 2

(* C14: in an outage of a card whose sink had been rendering, the first
   latency report of the sink is not zero. *)
C14_OutageStartsNonzero ==
    [][ (/\ base.stoped /\ io'.lat # io.lat /\ io'.lat.dir = "sink"
         /\ ~io.lat.stoped
         /\ io.sinkState = "RUNNING" /\ io.frames_in_buffer > 0)
        => io'.lat.value > 0 ]_vars

(* C15: while stoped is not set, a latency request on the sink reports, in
   frames, max(0, r.max + frames_in_buffer - d), where d is
   max(0, ft - saved_frame_time) once a frame time has been saved and 0
   before. *)
C15_SinkLatency ==
    [][ (~base.stoped /\ io'.lat # io.lat /\ io'.lat.dir = "sink") =>
          LET d == IF io.saved_frame_time_valid /\ io.ft > io.saved_frame_time
                   THEN io.ft - io.saved_frame_time ELSE 0
              l == io'.lat.r + io.frames_in_buffer - d
          IN io'.lat.value = IF l > 0 THEN l ELSE 0 ]_vars

(* C18: in add_bridge with autoconnect on and fewer physical ports than
   channels, every port is registered, port i is connected to physical port i
   for the ports before the first one that has no physical port, the others
   are left unconnected and exactly one message is logged; likewise no port
   is connected after the first jack_connect that fails.  The autoconnect
   option of the module is not changed. *)
C18_AutoconnectDegrades ==
    [][ (ab.pc = "loop" /\ ab'.pc = "done" /\ base.autoconnect) =>
          LET stop == IF ab.refuse > 0 /\ ab.refuse - 1 < ab.phys
                      THEN ab.refuse - 1 ELSE ab.phys
          IN /\ ab'.registered =
                   [i \in 1..ab.channels |-> PortName(ab.sink, i - 1, ab.channels)]
             /\ ab'.connected =
                   {<<PortName(ab.sink, i, ab.channels), i>> :
                      i \in {j \in 0..(ab.channels - 1) : j < stop}}
             /\ ab'.logged = IF stop < ab.channels THEN 1 ELSE 0
             /\ base'.autoconnect ]_vars

C18_Witness ==
    /\ ab.pc = "done" /\ base.autoconnect
    /\ ab.channels = 2 /\ ab.phys = 1 /\ ab.sink
    /\ ab.registered = <<"left", "right">>
    /\ ab.connected = {<<"left", 0>>}
    /\ ab.logged = 1

(* C21: within a process cycle jack_process does not go past the RENDER send
   before the worker has handled the RENDER and replied: a RENDER waits in
   jack_msgq exactly while jack_process is held at the send, so the worker
   writes the scratch buffers only then, and there is never more than one
   RENDER of the card. *)
C21_RenderIsSynchronous ==
    LET renders == {j \in DOMAIN io.jack_msgq : io.jack_msgq[j].code = "RENDER"}
    IN /\ Cardinality(renders) <= 1
       /\ (renders # {}) <=> (io.jp = "render")

C21_Witness ==
    /\ alive /\ io.cycle = 2 /\ io.jp = "render"
    /\ io.frames_in_buffer = NFrames

(* C22: a step of jack_process, or of the worker's latency handling, that is
   taken while the client handle of the card is NULL uses neither a port nor
   the frame clock through the handle, so it cannot fault. *)
C22_NullHandleIsSafe ==
    [][ (/\ alive /\ io.card # 0
         /\ card[io.card].jack = NoClient
         /\ UNCHANGED MainVars)
        => alive' ]_vars

(* C23: the cards set, the merge_ref and the stream sets of the cards and the
   timers belong to the main thread: a shutdown callback, which runs on a
   JACK thread, leaves the cards set, those fields of every card and the
   recover timer as they are. *)
C23_JackThreadLeavesTimers ==
    [][ (\E k \in ClientIds : client[k].pending /\ ~client'[k].pending) =>
          /\ cards' = cards
          /\ \A c \in CardIds :
                /\ card'[c].merge_ref = card[c].merge_ref
                /\ card'[c].inputs = card[c].inputs
                /\ card'[c].outputs = card[c].outputs
                /\ card'[c].time_event = card[c].time_event
          /\ base'.recover_event = base.recover_event ]_vars

(* C24: over the life of the module UNLOAD_MODULE is posted to the host at
   most once, however many workers leave their poll loop with an error and
   however their steps interleave; such a worker leaves its wait only with
   the SHUTDOWN that unload_card sends before it joins it. *)
C24_UnloadPostedOnce ==
    [][ /\ wk'.posted <= 1
        /\ \A c \in CardIds :
              (wk.pc[c] = "wait" /\ wk'.pc[c] # "wait") =>
                  (main.pc = "ul_join" /\ main.card = c
                   /\ card'[c].thread = "joined") ]_vars

(* C25: every RENDER the worker handles, rendered or silent, leaves
   frames_in_buffer = nframes, saved_frame_time = the frame time of the
   request, saved_frame_time_valid = TRUE and sink_timestamp = the time of
   handling, and leaves the sink's rewind_requested flag as it was. *)
C25_RenderBookkeeping ==
    [][ ( /\ io.jack_msgq # <<>>
          /\ Head(io.jack_msgq).code = "RENDER"
          /\ io.jp = "render" /\ io'.jp = "capture" )
        => ( /\ io'.frames_in_buffer = Head(io.jack_msgq).offset
             /\ io'.saved_frame_time = Head(io.jack_msgq).data
             /\ io'.saved_frame_time_valid
             /\ io'.sink_timestamp = io.now
             /\ io'.rewind_requested = io.rewind_requested ) ]_vars

(* C26: a RENDER asks the host to render exactly when the sink is RUNNING and
   the bridge is not stoped, and otherwise fills every channel's scratch
   buffer with silence; so every RENDER handled between a shutdown callback
   and the recovery that clears stoped leaves silence in every channel. *)
C26_SilenceUnlessRunning ==
    [][ ( /\ io.jack_msgq # <<>>
          /\ Head(io.jack_msgq).code = "RENDER"
          /\ io.jp = "render" /\ io'.jp = "capture" )
        => LET n == card[io.card].sink_channels
               asks == /\ card[io.card].sink = "linked"
                       /\ io.sinkState = "RUNNING" /\ ~base.stoped
           IN /\ asks => \A c \in PortIdx : c < n => io'.sink_buffer[c] = "audio"
              /\ ~asks => \A c \in PortIdx : c < n => io'.sink_buffer[c] = "silence"
              /\ base.stoped =>
                    \A c \in PortIdx : c < n => io'.sink_buffer[c] = "silence" ]_vars

(* A cycle handled during an outage, the sink RUNNING: silence in both
   channels. *)
C26_Witness ==
    /\ base.stoped /\ io.card # 0 /\ io.sinkState = "RUNNING"
    /\ io.jp = "capture"
    /\ \A c \in PortIdx : io.sink_buffer[c] = "silence"

(* C27: when the teardown timer of a card fires, the card is forcibly unloaded
   only if its inputs set and its outputs set are both empty; if either holds
   a stream the card stays. *)
C27_TimerSparesUsedCard ==
    [][ \A c \in CardIds :
          ( /\ main.pc = "idle" /\ modState = "loaded"
            /\ c \in SeqToSet(cards)
            /\ card[c].time_event = 0
            /\ card'[c].time_event = PA_USEC_INVALID )
          => ( (main'.pc = "ul_move" /\ main'.card = c)
                 <=> (card[c].inputs = {} /\ card[c].outputs = {}) ) ]_vars

(* C28: whenever a put hook attaches a stream to a card, by merging it onto an
   existing bridge or after adding a bridge, the teardown timer of that card is
   not armed when the hook returns. *)
C28_AttachCancelsTimer ==
    [][ \A c \in CardIds :
          ( \/ card'[c].inputs \ card[c].inputs # {}
            \/ card'[c].outputs \ card[c].outputs # {} )
          => card'[c].time_event = PA_USEC_INVALID ]_vars

(* C29: the put of a sink-input or source-output while the host is not
   RUNNING, or of a stream with the DONT_MOVE flag, leaves the bridges as they
   are: no card is created, no bridge added, no client opened, no set of a
   card changed, and neither the new stream nor another one is moved. *)
C29_SkippedPutChangesNothing ==
    [][ \A s \in StreamIds :
          ( /\ base.hooks
            /\ stream[s].st = "none" /\ stream'[s].st = "live"
            /\ (coreState # "RUNNING" \/ stream'[s].dont_move) )
          => ( /\ cards' = cards /\ card' = card /\ client' = client
               /\ base' = base /\ main' = main
               /\ stream'[s].dev = IF stream'[s].sink
                                    THEN (IF hostDefSink = NoDev THEN PriorDev ELSE hostDefSink)
                                    ELSE (IF hostDefSource = NoDev THEN PriorDev ELSE hostDefSource)
               /\ \A o \in StreamIds \ {s} : stream'[o] = stream[o] ) ]_vars

(* A source-output with DONT_MOVE was put while the module was loaded and the
   host RUNNING: it is on the host's default source and in no card's set. *)
C29_Witness ==
    /\ base.hooks /\ modState = "loaded" /\ coreState = "RUNNING" /\ main.pc = "idle"
    /\ \E s \in StreamIds :
          /\ stream[s].st = "live" /\ stream[s].dont_move /\ ~stream[s].sink
          /\ \A c \in CardIds : s \notin card[c].outputs

(* C30: with a merge policy other than none, the put of a stream whose
   property list lacks the policy's property merges it onto no card: the hook
   creates a new card for it and no existing card's sets change, so two such
   streams are on two different cards. *)
C30_BareStreamGetsOwnCard ==
    [][ \A s \in StreamIds :
          ( /\ base.hooks /\ coreState = "RUNNING" /\ base.merge # 0
            /\ stream[s].st = "none" /\ stream'[s].st = "live"
            /\ ~stream'[s].dont_move
            /\ LET p == Apps[stream'[s].app]
               IN \/ base.merge = 1 /\ p.pid = NullStr
                  \/ base.merge = 2 /\ p.binary = NullStr
                  \/ base.merge = 3 /\ p.name = NullStr
            /\ alive' )
          => ( /\ Len(cards') = Len(cards) + 1
               /\ \A c \in SeqToSet(cards) :
                     /\ card'[c].inputs = card[c].inputs
                     /\ card'[c].outputs = card[c].outputs ) ]_vars

(* C31: recovery is never abandoned: once stoped is set, and with the server
   back and every open succeeding from some point on, the module reaches a
   state with stoped cleared and a client handle in every card of the cards
   set (or the process has been ended by abort()). *)
C31_RecoveryNeverAbandoned ==
    base.stoped ~> ( \/ ~alive
                     \/ /\ ~base.stoped
                        /\ \A c \in SeqToSet(cards) : card[c].jack # NoClient )

(* C32: unload_card(card, true) terminates in every interleaving of the main
   thread, the process thread and the worker: a RENDER send that is waiting is
   answered, and an unload that has begun gets to the end of the join. *)
C32_UnloadTerminates ==
    /\ (io.jp = "render") ~> (io.jp # "render" \/ ~alive)
    /\ (main.pc = "ul_move") ~> (main.pc = "ul_free" \/ ~alive)

(* C33: whenever the worker handles a RENDER of a card, every channel below
   sink_channels has a port that is registered on the client the card holds,
   also while add_bridge is at work on the card. *)
C33_RenderHasPorts ==
    [][ ( /\ io.jack_msgq # <<>>
          /\ Head(io.jack_msgq).code = "RENDER"
          /\ io.jp = "render" /\ io'.jp = "capture" )
        => LET cr == card[io.card]
               k == cr.jack
           IN /\ k # NoClient
              /\ \A c \in PortIdx :
                    c < cr.sink_channels =>
                       /\ cr.sink_port[c] # NoPort
                       /\ cr.sink_port[c][1] = k
                       /\ cr.sink_port[c][2] \in client[k].ports ]_vars

====
